---- MODULE Spec2Model ----
(***************************************************************************)
(* Model of the MaStR fetch tools: the response normalizer zeep_to_dict,   *)
(* the retry wrapper fetch_marktakteur_with_retry, the batch orchestrator  *)
(* batch_fetch_marktakteure and the paging iterators of MastrClient.       *)
(*                                                                         *)
(* A Python str is modelled as a sequence of tokens, so that the substring *)
(* tests of the fault classification and the f-string prefixes are         *)
(* computed, not assumed.  Durations are in milliseconds.                  *)
(***************************************************************************)
EXTENDS Integers, Sequences, FiniteSets, TLC

VARIABLES
    \* ---- one call of fetch_marktakteur_with_retry ----
    fetch,        \* the locals of the call (pc, identifier, attempt, delay, return value)
    calls,        \* number of GetMarktakteur calls the call has made
    sleeps,       \* the durations passed to time.sleep, in order
    resps,        \* the remote responses received, in order
    \* ---- one call of batch_fetch_marktakteure ----
    mastr_nums,   \* the input list
    max_workers,  \* width of the ThreadPoolExecutor
    futures,      \* one future per submitted list position
    results,      \* the result map {mastr_num: {"data", "error"}}
    completed,    \* the completed counter
    batch_pc,     \* position of the main thread
    started,      \* per identifier, how many fetches were started for it
    \* ---- one listing generator (iter_marktakteure_by_role / iter_einheiten) ----
    it_kind,      \* which generator: "actors" or "units"
    it_limit,     \* the limit argument (page size)
    it_n,         \* number of items the remote listing holds
    it_start,     \* the offset cursor
    it_pc,        \* position of the generator
    it_items,     \* the page being yielded
    it_idx,       \* how many items of the page were yielded
    it_calls,     \* offsets of the remote calls made, in order
    it_pages,     \* lengths of the pages received, in order
    it_out,       \* the records yielded to the consumer, in order
    it_limits,    \* the limit argument of the remote calls made, in order
    it_requests,  \* how many times the consumer asked for the next record
    \* ---- one run of a batch tool (fetch_anlagenbetreiber / fetch_marktakteur) ----
    tool,         \* which tool runs: "anlagenbetreiber" or "marktakteur"
    main_pc,      \* position of main()
    base_rows,    \* the rows read from the input CSV
    interrupted,  \* a KeyboardInterrupt was raised in the main thread
    exit_status,  \* how the process ended
    out_table,    \* the standalone fetched-entity table
    out_merged,   \* the merged table
    \* ---- calls of matches_criteria on one storage unit ----
    m_details,    \* the detail record of the unit
    m_einheit,    \* the summary record of the unit
    m_client,     \* the client: absent, or what get_marktakteur_details does
    m_pc,         \* position inside matches_criteria
    m_natural,    \* the local is_natural_person
    m_fetches,    \* get_marktakteur_details calls made by the current call
    m_returns,    \* the booleans returned by the calls so far
    \* ---- one record on its way from the service to a CSV cell ----
    cv_raw,       \* the object the service returned
    cv_rec,       \* zeep_to_dict of it
    cv_flat,      \* flatten_dict of that: which tool's flatten_dict, and the cells
    cv_pc,        \* how far the record has come
    \* ---- the environment a tool is started in ----
    env_api_key,  \* MASTR_API_KEY: absent, or its text
    env_mastr_nr, \* MASTR_MARKTAKTEUR: absent, or its text
    \* ---- one run of a tool that pages a listing ----
    ls_pc,        \* position of the loop that consumes the generator
    ls_out,       \* the output: to a file or to stdout, opened, the records written
    ls_details,   \* the detail calls made: the unit and what the call gave
    ls_results    \* the local list results of fetch_filtered_storage

retryVars == <<fetch, calls, sleeps, resps>>
batchVars == <<mastr_nums, max_workers, futures, results, completed, batch_pc, started>>
iterVars  == <<it_kind, it_limit, it_n, it_start, it_pc, it_items, it_idx, it_calls, it_pages, it_out,
               it_limits, it_requests>>
toolVars  == <<tool, main_pc, base_rows, interrupted, exit_status, out_table, out_merged>>
matchVars == <<m_details, m_einheit, m_client, m_pc, m_natural, m_fetches, m_returns>>
convVars  == <<cv_raw, cv_rec, cv_flat, cv_pc>>
envVars   == <<env_api_key, env_mastr_nr>>
listVars  == <<ls_pc, ls_out, ls_details, ls_results>>
vars == <<fetch, calls, sleeps, resps,
          mastr_nums, max_workers, futures, results, completed, batch_pc, started,
          it_kind, it_limit, it_n, it_start, it_pc, it_items, it_idx, it_calls, it_pages,
          it_out, it_limits, it_requests,
          tool, main_pc, base_rows, interrupted, exit_status, out_table, out_merged,
          m_details, m_einheit, m_client, m_pc, m_natural, m_fetches, m_returns,
          cv_raw, cv_rec, cv_flat, cv_pc, env_api_key, env_mastr_nr,
          ls_pc, ls_out, ls_details, ls_results>>

----------------------------------------------------------------------------
(* Bounds of the model *)

MaxIds == 2            \* identifiers 1..MaxIds
MaxWorkers == 2        \* max_workers ranges over 1..MaxWorkers
MaxRetriesArg == 7     \* max_retries ranges over 0..MaxRetriesArg
MaxItems == 7          \* the listing holds 0..MaxItems items
MaxPageSize == 3       \* limit ranges over 1..MaxPageSize
MaxFields == 2         \* a returned object has MaxFields fields
MaxUnits == 4          \* a tool pages a listing of 0..MaxUnits records

(* Program constants *)

DefaultMaxRetries == 6
InitialDelay == 200
MaxDelay == 10000

Ids == 1..MaxIds

Min(a, b) == IF a < b THEN a ELSE b

----------------------------------------------------------------------------
(* Python values.  None, str (standing for every primitive), list, a date, *)
(* a zeep object (an attribute bag), a bound method, an object whose       *)
(* traversal does not end, and the dict that zeep_to_dict builds.          *)

NoneV == [t |-> "none"]
Str(s) == [t |-> "str", v |-> s]
IntV(n) == [t |-> "int", v |-> n]
ListV(s) == [t |-> "list", items |-> s]
ObjV(f) == [t |-> "obj", fields |-> f]
DictV(f) == [t |-> "dict", fields |-> f]
CallableV == [t |-> "callable"]
CyclicV == [t |-> "cyclic"]
DateV(iso) == [t |-> "date", iso |-> iso]

IsNone(v) == v.t = "none"
EmptyDict == DictV([k \in {} |-> NoneV])
EmptyList == ListV(<<>>)

\* bool(v) of Python for the values above
Truthy(v) ==
    CASE v.t = "none" -> FALSE
      [] v.t = "str" -> Len(v.v) > 0
      [] v.t = "int" -> v.v # 0
      [] v.t = "list" -> Len(v.items) > 0
      [] v.t = "dict" -> DOMAIN v.fields # {}
      [] OTHER -> TRUE

\* names that start with "_" (skipped by zeep_to_dict)
PrivateNames == {"_xsd_type", "_value_1", "__values__"}

\* getattr(obj, name, None)
GetAttr(obj, name) ==
    IF obj.t = "obj" /\ name \in DOMAIN obj.fields THEN obj.fields[name] ELSE NoneV

\* zeep_to_dict raises (RecursionError) on an object graph that does not end
RECURSIVE NormalizeRaises(_)
NormalizeRaises(obj) ==
    CASE obj.t = "cyclic" -> TRUE
      [] obj.t = "list" -> \E i \in 1..Len(obj.items) : NormalizeRaises(obj.items[i])
      [] obj.t = "obj" -> \E k \in DOMAIN obj.fields :
                              /\ k \notin PrivateNames
                              /\ obj.fields[k].t # "callable"
                              /\ NormalizeRaises(obj.fields[k])
      [] OTHER -> FALSE

RECURSIVE zeep_to_dict(_)
zeep_to_dict(obj) ==
    CASE obj.t = "none" -> NoneV
      [] obj.t = "list" -> ListV([i \in 1..Len(obj.items) |-> zeep_to_dict(obj.items[i])])
      [] obj.t \in {"str", "int"} -> obj
      [] obj.t = "date" -> Str(obj.iso)
      [] obj.t = "obj" ->
            LET public == {k \in DOMAIN obj.fields :
                              k \notin PrivateNames /\ obj.fields[k].t # "callable"}
                d == [k \in public |-> zeep_to_dict(obj.fields[k])]
                kept == {k \in public : d[k] # NoneV /\ d[k] # EmptyDict /\ d[k] # EmptyList}
            IN DictV([k \in kept |-> d[k]])
      [] OTHER -> Str(<<"<object>">>)

----------------------------------------------------------------------------
(* The remote service.  A GetMarktakteur call returns a response, raises a *)
(* zeep Fault with a message, or raises another Exception with a message.  *)

Resp(v) == [kind |-> "resp", value |-> v]
FaultR(m) == [kind |-> "fault", msg |-> m]
ExcR(m) == [kind |-> "exc", msg |-> m]

Record == ObjV([Name |-> Str(<<"Stadtwerke">>), Fax |-> NoneV, _xsd_type |-> Str(<<"T">>)])

Responses ==
    { Resp(ObjV([Marktakteur |-> Record])),          \* data nested under "Marktakteur"
      Resp(Record),                                  \* the response is the data itself
      Resp(NoneV),                                   \* the call returned None
      Resp(ObjV([Fax |-> NoneV, Orte |-> ListV(<<>>)])),  \* a response with no content
      Resp(ObjV([Marktakteur |-> ObjV([Name |-> Str(<<"X">>), Parent |-> CyclicV])])) }

FaultMsgs ==
    { <<"MarktakteurNichtGefunden">>,
      <<"Server:", "MarktakteurUnbekannt">>,
      <<"ToManyRequests">>,
      <<"HTTP", "429">>,
      <<"MarktakteurNichtGefunden", "429">>,
      <<"Zeitueberschreitung">> }

ExcMsgs == { <<"ConnectionError">> }

Remote == Responses \cup {FaultR(m) : m \in FaultMsgs} \cup {ExcR(m) : m \in ExcMsgs}

\* tok in msg
Contains(msg, tok) == \E i \in 1..Len(msg) : msg[i] = tok

IsNotFoundMsg(msg) ==
    Contains(msg, "MarktakteurNichtGefunden") \/ Contains(msg, "MarktakteurUnbekannt")
IsRateLimitMsg(msg) ==
    Contains(msg, "ToManyRequests") \/ Contains(msg, "429")

----------------------------------------------------------------------------
(* fetch_marktakteur_with_retry.  The locals of one call:                  *)
(*   pc      "call"     about to call GetMarktakteur                       *)
(*           "sleep"    inside time.sleep(delay)                           *)
(*           "returned" ret holds the triple                               *)
(*           "raised"   an exception left the function                     *)

NoRet == <<>>

Return(st, data, err) ==
    [st EXCEPT !.pc = "returned", !.ret = <<st.id, data, err>>]

\* LoopHead with an off-by-one loop bound (one attempt too many)
LoopHead_OffByOne(st) ==
    IF st.attempt <= st.max_retries
    THEN [st EXCEPT !.pc = "call"]
    ELSE [st EXCEPT !.pc = "returned",
                    !.ret = <<st.id, NoneV, Str(<<"retry_exhausted">>)>>]

\* the head of "for attempt in range(max_retries)" and the code after the loop
LoopHead(st) ==
    IF st.attempt < st.max_retries
    THEN [st EXCEPT !.pc = "call"]
    ELSE Return(st, NoneV, Str(<<"retry_exhausted">>))

\* entry of the function: delay = 0.2, then the loop
FetchEnter(id, mr) ==
    LoopHead([pc |-> "call", id |-> id, max_retries |-> mr,
              attempt |-> 0, delay |-> InitialDelay, ret |-> NoRet])

\* the try body after GetMarktakteur returned resp
OnResponse(st, resp) ==
    LET attr == GetAttr(resp, "Marktakteur")
        obj == IF IsNone(attr) THEN resp ELSE attr
    IN IF IsNone(obj) THEN Return(st, NoneV, NoneV)
       ELSE IF NormalizeRaises(obj) THEN [st EXCEPT !.pc = "exc_pending"]
       ELSE Return(st, zeep_to_dict(obj), NoneV)

\* OnException without the handler: the exception leaves the function
OnException_Reraise(st, msg) ==
    [st EXCEPT !.pc = "raised"]

\* except Exception as e
OnException(st, msg) ==
    Return(st, NoneV, Str(<<"exception:">> \o msg))

\* OnFault that backs off and retries on a not-found fault too
OnFault_RetryNotFound(st, msg) ==
    IF IsNotFoundMsg(msg) \/ IsRateLimitMsg(msg) THEN [st EXCEPT !.pc = "sleep"]
    ELSE [st EXCEPT !.pc = "returned", !.ret = <<st.id, NoneV, Str(<<"fault:">> \o msg)>>]

\* OnFault that backs off and retries on every fault that is not not-found
OnFault_RetryOther(st, msg) ==
    IF IsNotFoundMsg(msg)
    THEN [st EXCEPT !.pc = "returned", !.ret = <<st.id, NoneV, Str(<<"not_found">>)>>]
    ELSE [st EXCEPT !.pc = "sleep"]

\* OnFault that tests the rate-limit pattern before the not-found pattern
OnFault_RateLimitFirst(st, msg) ==
    IF IsRateLimitMsg(msg) THEN [st EXCEPT !.pc = "sleep"]
    ELSE IF IsNotFoundMsg(msg)
         THEN [st EXCEPT !.pc = "returned", !.ret = <<st.id, NoneV, Str(<<"not_found">>)>>]
         ELSE [st EXCEPT !.pc = "returned", !.ret = <<st.id, NoneV, Str(<<"fault:">> \o msg)>>]

\* except Fault as f
OnFault(st, msg) ==
    IF IsNotFoundMsg(msg) THEN Return(st, NoneV, Str(<<"not_found">>))
    ELSE IF IsRateLimitMsg(msg) THEN [st EXCEPT !.pc = "sleep"]
    ELSE Return(st, NoneV, Str(<<"fault:">> \o msg))

\* one iteration of the loop up to its return or its time.sleep
Attempt(st, r) ==
    CASE r.kind = "resp" ->
            LET s1 == OnResponse(st, r.value)
            IN IF s1.pc = "exc_pending" THEN OnException(st, <<"RecursionError">>) ELSE s1
      [] r.kind = "fault" -> OnFault(st, r.msg)
      [] r.kind = "exc" -> OnException(st, r.msg)

\* Wake that doubles the delay without the cap
Wake_NoCap(st) ==
    LoopHead([st EXCEPT !.delay = st.delay * 2, !.attempt = st.attempt + 1])

\* time.sleep returns: delay = min(delay * 2, 10.0); continue
Wake(st) ==
    LoopHead([st EXCEPT !.delay = Min(st.delay * 2, MaxDelay), !.attempt = st.attempt + 1])

----------------------------------------------------------------------------
(* Specification of one call of fetch_marktakteur_with_retry *)

BatchIdle ==
    /\ mastr_nums = <<>>
    /\ max_workers = 1
    /\ futures = <<>>
    /\ results = <<>>
    /\ completed = 0
    /\ batch_pc = "idle"
    /\ started = [i \in Ids |-> 0]

IterIdle ==
    /\ it_kind = "none"
    /\ it_limit = 1
    /\ it_n = 0
    /\ it_start = 0
    /\ it_pc = "idle"
    /\ it_items = <<>>
    /\ it_idx = 0
    /\ it_calls = <<>>
    /\ it_pages = <<>>
    /\ it_out = <<>>
    /\ it_limits = <<>>
    /\ it_requests = 0

MatchIdle ==
    /\ m_details = NoneV
    /\ m_einheit = NoneV
    /\ m_client = [kind |-> "none"]
    /\ m_pc = "idle"
    /\ m_natural = FALSE
    /\ m_fetches = 0
    /\ m_returns = <<>>

NotWritten == [opened |-> FALSE, fieldnames |-> {}, rows |-> <<>>, raised |-> FALSE]
StillRunning == [kind |-> "running"]

ToolIdle ==
    /\ tool = "none"
    /\ main_pc = "idle"
    /\ base_rows = <<>>
    /\ interrupted = FALSE
    /\ exit_status = StillRunning
    /\ out_table = NotWritten
    /\ out_merged = NotWritten

RetryIdle ==
    /\ fetch = [pc |-> "idle"]
    /\ calls = 0
    /\ sleeps = <<>>
    /\ resps = <<>>

ConvIdle ==
    /\ cv_raw = NoneV
    /\ cv_rec = NoneV
    /\ cv_flat = [tool |-> "none", cells |-> <<>>]
    /\ cv_pc = "idle"

EnvIdle ==
    /\ env_api_key = NoneV
    /\ env_mastr_nr = NoneV

ListIdle ==
    /\ ls_pc = "idle"
    /\ ls_out = [to_file |-> FALSE, opened |-> FALSE, rows |-> <<>>]
    /\ ls_details = <<>>
    /\ ls_results = <<>>

InitRetry ==
    /\ \E id \in Ids, mr \in 0..MaxRetriesArg : fetch = FetchEnter(id, mr)
    /\ calls = 0
    /\ sleeps = <<>>
    /\ resps = <<>>
    /\ BatchIdle
    /\ IterIdle
    /\ ToolIdle
    /\ MatchIdle
    /\ ConvIdle
    /\ EnvIdle
    /\ ListIdle

\* the worker calls GetMarktakteur and handles what comes back
RetryCall ==
    /\ fetch.pc = "call"
    /\ \E r \in Remote :
          /\ fetch' = Attempt(fetch, r)
          /\ resps' = Append(resps, r)
          /\ sleeps' = IF Attempt(fetch, r).pc = "sleep" THEN Append(sleeps, fetch.delay) ELSE sleeps
    /\ calls' = calls + 1
    /\ UNCHANGED <<batchVars, iterVars, toolVars, matchVars, convVars, envVars, listVars>>

\* the backoff sleep ends
RetryWake ==
    /\ fetch.pc = "sleep"
    /\ fetch' = Wake(fetch)
    /\ UNCHANGED <<calls, sleeps, resps, batchVars, iterVars, toolVars, matchVars,
                   convVars, envVars, listVars>>

NextRetry == RetryCall \/ RetryWake

SpecRetry == InitRetry /\ [][NextRetry]_vars
FairRetry == SpecRetry /\ WF_vars(NextRetry)

----------------------------------------------------------------------------
(* Properties of fetch_marktakteur_with_retry *)

Last(s) == s[Len(s)]

\* the fault classes of the retry wrapper
NotFoundFault(r) == r.kind = "fault" /\ IsNotFoundMsg(r.msg)
RateLimitFault(r) == r.kind = "fault" /\ ~IsNotFoundMsg(r.msg) /\ IsRateLimitMsg(r.msg)
OtherFault(r) == r.kind = "fault" /\ ~IsNotFoundMsg(r.msg) /\ ~IsRateLimitMsg(r.msg)
RaisesException(r) ==
    \/ r.kind = "exc"
    \/ /\ r.kind = "resp"
       /\ LET attr == GetAttr(r.value, "Marktakteur")
              obj == IF IsNone(attr) THEN r.value ELSE attr
          IN NormalizeRaises(obj)

AllRateLimited == \A i \in 1..Len(resps) : RateLimitFault(resps[i])

\* C2: a fetch whose every attempt is rate-limited never makes more than
\* max_retries remote calls, returns <id, None, "retry_exhausted"> after
\* exactly max_retries calls, and does return.
C2_RateLimitTerminates ==
    /\ [](AllRateLimited =>
            /\ calls <= fetch.max_retries
            /\ fetch.pc = "returned" =>
                  /\ calls = fetch.max_retries
                  /\ fetch.ret = <<fetch.id, NoneV, Str(<<"retry_exhausted">>)>>)
    /\ <>(fetch.pc = "returned")

C2_Witness ==
    /\ fetch.pc = "returned"
    /\ fetch.max_retries = DefaultMaxRetries
    /\ AllRateLimited
    /\ calls = DefaultMaxRetries
    /\ fetch.ret[3] = Str(<<"retry_exhausted">>)

\* C3: once a not-found fault is received the fetch is over: it was the last
\* remote call, only the rate-limited attempts before it slept, nothing more
\* can happen, and the outcome is <id, None, "not_found">.
C3_NotFoundNotRetried ==
    (Len(resps) > 0 /\ NotFoundFault(Last(resps))) =>
        /\ fetch.pc = "returned"
        /\ fetch.ret = <<fetch.id, NoneV, Str(<<"not_found">>)>>
        /\ calls = Len(resps)
        /\ Len(sleeps) = Len(resps) - 1
        /\ \A i \in 1..(Len(resps) - 1) : RateLimitFault(resps[i])
        /\ ~ENABLED NextRetry

C3_Witness ==
    /\ Len(resps) = 3
    /\ NotFoundFault(Last(resps))
    /\ Len(sleeps) = 2
    /\ fetch.pc = "returned"

\* C4: a fault that is neither not-found nor rate-limited, and any other
\* exception of the call or of the normalization, ends the fetch at once with
\* <id, None, "fault:<msg>"> or <id, None, "exception:<msg>">; no sleep and
\* no further call follows.
C4_OtherFaultEndsFetch ==
    Len(resps) > 0 =>
        /\ OtherFault(Last(resps)) =>
              /\ fetch.pc = "returned"
              /\ fetch.ret = <<fetch.id, NoneV, Str(<<"fault:">> \o Last(resps).msg)>>
        /\ RaisesException(Last(resps)) =>
              /\ fetch.pc = "returned"
              /\ fetch.ret[2] = NoneV
              /\ fetch.ret[3].v[1] = "exception:"
              /\ Last(resps).kind = "exc" =>
                    fetch.ret[3] = Str(<<"exception:">> \o Last(resps).msg)
        /\ (OtherFault(Last(resps)) \/ RaisesException(Last(resps))) =>
              /\ calls = Len(resps)
              /\ Len(sleeps) = Len(resps) - 1
              /\ ~ENABLED NextRetry

C4_Witness ==
    /\ Len(resps) = 2
    /\ OtherFault(Last(resps))
    /\ fetch.pc = "returned"
    /\ Len(sleeps) = 1

\* C5: the fetch never raises and always returns; what it returns is a triple
\* whose first component is the identifier it was called with, and whenever
\* the last remote call failed the triple carries an error text and no data.
C5_AlwaysReturnsNeverRaises ==
    /\ [](/\ fetch.pc \in {"call", "sleep", "returned"}
          /\ fetch.pc = "returned" =>
                /\ Len(fetch.ret) = 3
                /\ fetch.ret[1] = fetch.id
                /\ (resps = <<>> \/ Last(resps).kind # "resp" \/ RaisesException(Last(resps))) =>
                      (fetch.ret[2] = NoneV /\ fetch.ret[3].t = "str"))
    /\ <>(fetch.pc = "returned")

C5_Witness ==
    /\ fetch.pc = "returned"
    /\ Len(resps) > 0
    /\ Last(resps).kind = "exc"
    /\ fetch.ret[1] = fetch.id
    /\ fetch.ret[3] = Str(<<"exception:", "ConnectionError">>)

\* C6 (as claimed): every returned outcome is exactly one tag, a non-null
\* record without error or an error without record; a call that returned
\* without fault gives a non-null record.
C6_OutcomeExactlyOneTag ==
    fetch.pc = "returned" =>
        \/ (fetch.ret[2] # NoneV /\ fetch.ret[3] = NoneV)
        \/ (fetch.ret[2] = NoneV /\ fetch.ret[3] # NoneV)

----------------------------------------------------------------------------
(* batch_fetch_marktakteure.  The main thread submits one task per list    *)
(* position to a ThreadPoolExecutor of max_workers threads, then takes the *)
(* futures as they complete.  Position of the main thread:                 *)
(*   "submit"    inside the dict comprehension that submits the tasks      *)
(*   "collect"   inside the as_completed loop                              *)
(*   "aborting"  an exception left the loop; the with block joins workers  *)
(*   "returned"  results was returned                                      *)
(*   "raised"    the exception left batch_fetch_marktakteure               *)

NoLocal == [pc |-> "none"]

\* executor.submit(fetch_marktakteur_with_retry, client, mastr_num)
NewFuture(num) ==
    [state |-> "pending", num |-> num, local |-> NoLocal, result |-> NoRet,
     exc |-> FALSE, collected |-> FALSE]

\* the submit loop bound to its first element (every task gets mastr_nums[1])
SubmitNext_FirstOnly(futs, nums) ==
    Append(futs, [state |-> "pending", num |-> nums[1], local |-> NoLocal, result |-> NoRet,
                  exc |-> FALSE, collected |-> FALSE])

\* one step of {executor.submit(..., mastr_num): mastr_num for mastr_num in mastr_nums}
SubmitNext(futs, nums) ==
    Append(futs, NewFuture(nums[Len(futs) + 1]))

Running(futs) == {i \in 1..Len(futs) : futs[i].state = "running"}

\* a pool that admits one thread more than max_workers
WorkerFree_OneTooMany(futs, n) == Cardinality({i \in 1..Len(futs) : futs[i].state = "running"}) <= n

\* ThreadPoolExecutor(max_workers=n): a task starts only on a free thread
WorkerFree(futs, n) == Cardinality(Running(futs)) < n

\* the work queue of the executor is first in, first out
NextQueued(futs, i) ==
    /\ futs[i].state = "pending"
    /\ \A j \in 1..(i - 1) : futs[j].state # "pending"

\* the task function returned or raised: the future is set
Settle(fut) ==
    CASE fut.local.pc = "returned" ->
            [fut EXCEPT !.state = "finished", !.result = fut.local.ret, !.local = NoLocal]
      [] fut.local.pc = "raised" ->
            [fut EXCEPT !.state = "finished", !.result = <<"raised">>, !.local = NoLocal]
      [] OTHER -> fut

\* future.result() that raises when the task reported an error
FutureResult_RaiseOnError(fut) ==
    IF fut.result = <<"raised">> \/ fut.result[3] # NoneV
    THEN [kind |-> "raise"]
    ELSE [kind |-> "value", value |-> fut.result]

\* future.result(): the triple the task returned, or its exception re-raised
FutureResult(fut) ==
    IF fut.result = <<"raised">>
    THEN [kind |-> "raise"]
    ELSE [kind |-> "value", value |-> fut.result]

\* results[...] = ... that keeps successful fetches only
StoreResult_SkipFailed(res, triple) ==
    IF triple[3] # NoneV THEN res
    ELSE [k \in DOMAIN res \cup {triple[1]} |->
            IF k = triple[1] THEN [data |-> triple[2], error |-> triple[3]] ELSE res[k]]

\* results[mastr_num] = {"data": data, "error": err}
StoreResult(res, triple) ==
    [k \in DOMAIN res \cup {triple[1]} |->
        IF k = triple[1] THEN [data |-> triple[2], error |-> triple[3]] ELSE res[k]]

RECURSIVE SortedList(_)
\* sorted(list(unique_mastr_nums))
SortedList(S) ==
    IF S = {} THEN <<>>
    ELSE LET m == CHOOSE x \in S : \A y \in S : x <= y
         IN <<m>> \o SortedList(S \ {m})

InitBatch ==
    /\ \E S \in SUBSET Ids : mastr_nums = SortedList(S)
    /\ max_workers \in 1..MaxWorkers
    /\ futures = <<>>
    /\ results = <<>>
    /\ completed = 0
    /\ batch_pc = IF mastr_nums = <<>> THEN "collect" ELSE "submit"
    /\ started = [i \in Ids |-> 0]
    /\ RetryIdle
    /\ IterIdle
    /\ ToolIdle
    /\ MatchIdle
    /\ ConvIdle
    /\ EnvIdle
    /\ ListIdle

\* the main thread submits the task of the next list position
Submit ==
    /\ batch_pc = "submit"
    /\ futures' = SubmitNext(futures, mastr_nums)
    /\ batch_pc' = IF Len(futures) + 1 = Len(mastr_nums) THEN "collect" ELSE "submit"
    /\ UNCHANGED <<mastr_nums, max_workers, results, completed, started, retryVars, iterVars, toolVars, matchVars,
                   convVars, envVars, listVars>>

\* a free pool thread takes the oldest queued task and enters the fetch
WorkerStart ==
    \E i \in 1..Len(futures) :
        /\ NextQueued(futures, i)
        /\ WorkerFree(futures, max_workers)
        /\ futures' = [futures EXCEPT ![i] =
              Settle([@ EXCEPT !.state = "running",
                               !.local = FetchEnter(futures[i].num, DefaultMaxRetries)])]
        /\ started' = [started EXCEPT ![futures[i].num] = @ + 1]
        /\ UNCHANGED <<mastr_nums, max_workers, results, completed, batch_pc, retryVars, iterVars, toolVars, matchVars,
                   convVars, envVars, listVars>>

\* a worker calls GetMarktakteur and handles what comes back
WorkerCall ==
    \E i \in 1..Len(futures) :
        /\ futures[i].state = "running"
        /\ futures[i].local.pc = "call"
        /\ \E r \in Remote :
              futures' = [futures EXCEPT ![i] =
                  Settle([@ EXCEPT !.local = Attempt(futures[i].local, r),
                                   !.exc = RaisesException(r)])]
        /\ UNCHANGED <<mastr_nums, max_workers, results, completed, batch_pc, started,
                       retryVars, iterVars, toolVars, matchVars, convVars, envVars, listVars>>

\* a worker's backoff sleep ends
WorkerWake ==
    \E i \in 1..Len(futures) :
        /\ futures[i].state = "running"
        /\ futures[i].local.pc = "sleep"
        /\ futures' = [futures EXCEPT ![i] = Settle([@ EXCEPT !.local = Wake(futures[i].local)])]
        /\ UNCHANGED <<mastr_nums, max_workers, results, completed, batch_pc, started,
                       retryVars, iterVars, toolVars, matchVars, convVars, envVars, listVars>>

\* one iteration of "for future in as_completed(futures)"
Collect ==
    \E i \in 1..Len(futures) :
        /\ batch_pc = "collect"
        /\ futures[i].state = "finished"
        /\ ~futures[i].collected
        /\ futures' = [futures EXCEPT ![i].collected = TRUE]
        /\ LET o == FutureResult(futures[i])
           IN IF o.kind = "raise"
              THEN /\ batch_pc' = "aborting"
                   /\ UNCHANGED <<results, completed>>
              ELSE /\ results' = StoreResult(results, o.value)
                   /\ completed' = completed + 1
                   /\ batch_pc' = batch_pc
        /\ UNCHANGED <<mastr_nums, max_workers, started, retryVars, iterVars, toolVars, matchVars,
                   convVars, envVars, listVars>>

\* the with block ends (executor.shutdown(wait=True)) and the function is left
BatchReturn ==
    /\ \/ /\ batch_pc = "collect"
          /\ \A i \in 1..Len(futures) : futures[i].collected
          /\ batch_pc' = "returned"
       \/ /\ batch_pc = "aborting"
          /\ \A i \in 1..Len(futures) : futures[i].state = "finished"
          /\ batch_pc' = "raised"
    /\ UNCHANGED <<mastr_nums, max_workers, futures, results, completed, started,
                   retryVars, iterVars, toolVars, matchVars, convVars, envVars, listVars>>

NextBatch == Submit \/ WorkerStart \/ WorkerCall \/ WorkerWake \/ Collect \/ BatchReturn

SpecBatch == InitBatch /\ [][NextBatch]_vars

----------------------------------------------------------------------------
(* Properties of batch_fetch_marktakteure *)

Range(q) == {q[i] : i \in 1..Len(q)}

IsExceptionError(e) == e.t = "str" /\ Len(e.v) > 0 /\ e.v[1] = "exception:"

\* C1: when batch_fetch_marktakteure has returned, the keys of the result map
\* are exactly the identifiers of the input list, one entry each, and the
\* function never ends by raising, whatever the remote service answered.
C1_KeySetEqualsInput ==
    /\ batch_pc \notin {"aborting", "raised"}
    /\ DOMAIN results \subseteq Range(mastr_nums)
    /\ batch_pc = "returned" =>
          /\ DOMAIN results = Range(mastr_nums)
          /\ completed = Len(mastr_nums)
          /\ Cardinality(DOMAIN results) = Len(mastr_nums)

C1_Witness ==
    /\ batch_pc = "returned"
    /\ Len(mastr_nums) = MaxIds
    /\ \E a, b \in DOMAIN results :
          /\ Truthy(results[a].data)
          /\ results[a].error = NoneV
          /\ results[b].error = Str(<<"retry_exhausted">>)

\* C7: an exception raised by the remote call or the normalization while one
\* identifier is fetched becomes the outcome <id, None, "exception:..."> of
\* that identifier; the batch does not abort, every other fetch finishes and
\* the map returned holds the outcome of every future.
C7_ExceptionIsolated ==
    /\ batch_pc \notin {"aborting", "raised"}
    /\ \A i \in 1..Len(futures) :
          futures[i].exc =>
              /\ futures[i].state = "finished"
              /\ futures[i].result[1] = futures[i].num
              /\ futures[i].result[2] = NoneV
              /\ IsExceptionError(futures[i].result[3])
    /\ batch_pc = "returned" =>
          /\ Len(futures) = Len(mastr_nums)
          /\ \A i \in 1..Len(futures) :
                /\ futures[i].state = "finished"
                /\ mastr_nums[i] \in DOMAIN results
                /\ results[mastr_nums[i]] =
                      [data |-> futures[i].result[2], error |-> futures[i].result[3]]

C7_Witness ==
    /\ batch_pc = "returned"
    /\ \E i, j \in 1..Len(futures) :
          /\ futures[i].exc
          /\ IsExceptionError(results[futures[i].num].error)
          /\ ~futures[j].exc
          /\ Truthy(results[futures[j].num].data)

\* C8: no identifier's fetch is started twice, none is started for an
\* identifier outside the input, and when the batch has returned exactly one
\* fetch was started for every identifier of the input.
C8_OneFetchPerIdentifier ==
    /\ \A id \in Ids : started[id] <= 1
    /\ \A id \in Ids \ Range(mastr_nums) : started[id] = 0
    /\ batch_pc = "returned" => \A id \in Range(mastr_nums) : started[id] = 1

C8_Witness ==
    /\ batch_pc = "returned"
    /\ Len(mastr_nums) = MaxIds
    /\ max_workers = 2
    /\ \A id \in Range(mastr_nums) : started[id] = 1

\* C9: at most max_workers fetches are between their start and their end at
\* any moment (backoff sleep included); a queued task waits while the pool
\* is full.
C9_AtMostNAttempting ==
    Cardinality({i \in 1..Len(futures) : futures[i].state = "running"}) <= max_workers

C9_Witness ==
    /\ Cardinality({i \in 1..Len(futures) : futures[i].state = "running"}) = max_workers
    /\ \E i \in 1..Len(futures) : futures[i].state = "pending"
    /\ \E i \in 1..Len(futures) : futures[i].state = "running" /\ futures[i].local.pc = "sleep"
    /\ ~ENABLED WorkerStart

----------------------------------------------------------------------------
(* MastrClient.iter_marktakteure_by_role and MastrClient.iter_einheiten.   *)
(* Position of the generator:                                              *)
(*   "created"  the generator object exists, its body has not started      *)
(*   "call"     running, about to call the listing operation               *)
(*   "items"    running, inside "for it in items"                          *)
(*   "yielded"  suspended at the yield                                     *)
(*   "done"     the loop was left (StopIteration)                          *)
(*   "raised"   RuntimeError raised from a SOAP Fault                      *)
(*   "closed"   the consumer dropped the generator before its end          *)

\* the attribute of the response that holds the page
ListAttr(kind) == IF kind = "actors" THEN "Marktakteure" ELSE "Einheiten"

\* EINHEITTYP_STROMSPEICHER
Stromspeichereinheit == Str(<<"Stromspeichereinheit">>)

\* the k-th record of the remote listing.  Of the units, every second one is
\* of another type and every fourth one is a storage unit without number.
ItemAt(kind, k) ==
    IF kind = "actors"
    THEN ObjV([MastrNummer |-> IntV(k), Bemerkung |-> NoneV])
    ELSE ObjV([EinheitMastrNummer |-> (IF k % 4 = 0 THEN NoneV ELSE Str(<<"SEE", ToString(k)>>)),
               Einheittyp |-> (IF k % 2 = 0 /\ k % 4 # 0
                               THEN Str(<<"Windeinheit">>) ELSE Stromspeichereinheit),
               Bemerkung |-> NoneV])

\* it_n of a listing that serves a full page at every offset
Endless == -1

\* the page of a listing of n records served for startAb = start, limit = limit
PageAt(kind, n, start, limit) ==
    [i \in 1..(IF n = Endless THEN limit
               ELSE IF n - start < 0 THEN 0 ELSE Min(limit, n - start))
        |-> ItemAt(kind, start + i)]

\* the responses the service may give: the page, and None in place of an empty page
ListingResponses(kind, n, start, limit) ==
    LET page == PageAt(kind, n, start, limit)
    IN IF kind = "actors"
       THEN {ObjV([Marktakteure |-> ListV(page)])} \cup
            (IF page = <<>> THEN {ObjV([Marktakteure |-> NoneV])} ELSE {})
       ELSE {ObjV([Einheiten |-> ListV(page)])} \cup
            (IF page = <<>> THEN {ObjV([Einheiten |-> NoneV])} ELSE {})

\* getattr(resp, "...", None) or []
ItemsOf(kind, resp) ==
    LET a == GetAttr(resp, ListAttr(kind))
    IN IF Truthy(a) THEN a.items ELSE <<>>

\* a loop that also stops at every empty page
LastPage_OrEmpty(items, limit) == Len(items) < limit \/ Len(items) = 0

\* a loop that stops only at an empty page
LastPage_OnlyEmpty(items, limit) == Len(items) = 0

\* if len(items) < limit: break
LastPage(items, limit) == Len(items) < limit

\* a cursor that counts pages instead of records
NextStart_ByOne(start, limit) == start + 1

\* start += limit
NextStart(start, limit) == start + limit

\* a generator that runs on after a yield without waiting for the consumer
AfterYield_NoSuspend == "items"

\* the generator is suspended at its yield until the next request
AfterYield == "yielded"

InitIter ==
    /\ it_kind \in {"actors", "units"}
    /\ it_limit \in 1..MaxPageSize
    /\ it_n \in 0..MaxItems
    /\ it_start = 0
    /\ it_pc = "created"
    /\ it_items = <<>>
    /\ it_idx = 0
    /\ it_calls = <<>>
    /\ it_pages = <<>>
    /\ it_out = <<>>
    /\ it_limits = <<>>
    /\ it_requests = 0
    /\ RetryIdle
    /\ BatchIdle
    /\ ToolIdle
    /\ MatchIdle
    /\ ConvIdle
    /\ EnvIdle
    /\ ListIdle

\* the consumer asks for the next record: the generator starts or resumes
ConsumerNext ==
    /\ it_pc \in {"created", "yielded"}
    /\ it_pc' = IF it_pc = "created" THEN "call" ELSE "items"
    /\ it_requests' = it_requests + 1
    /\ UNCHANGED <<it_kind, it_limit, it_n, it_start, it_items, it_idx, it_calls, it_pages,
                   it_out, it_limits, retryVars, batchVars, toolVars, matchVars,
                   convVars, envVars, listVars>>

\* the consumer stops before the end and drops the generator
ConsumerStop ==
    /\ it_pc \in {"created", "yielded"}
    /\ it_pc' = "closed"
    /\ UNCHANGED <<it_kind, it_limit, it_n, it_start, it_items, it_idx, it_calls, it_pages,
                   it_out, it_limits, it_requests, retryVars, batchVars, toolVars, matchVars,
                   convVars, envVars, listVars>>

\* the listing call returns a page (the model follows a generator for at
\* most MaxItems + 2 calls)
ListCall ==
    /\ it_pc = "call"
    /\ Len(it_calls) < MaxItems + 2
    /\ \E resp \in ListingResponses(it_kind, it_n, it_start, it_limit) :
          /\ it_items' = ItemsOf(it_kind, resp)
          /\ it_pages' = Append(it_pages, Len(ItemsOf(it_kind, resp)))
    /\ it_idx' = 0
    /\ it_calls' = Append(it_calls, it_start)
    /\ it_limits' = Append(it_limits, it_limit)
    /\ it_pc' = "items"
    /\ UNCHANGED <<it_kind, it_limit, it_n, it_start, it_out, it_requests, retryVars, batchVars, toolVars, matchVars,
                   convVars, envVars, listVars>>

\* the listing call raises a Fault: raise RuntimeError(...) from f
ListFault ==
    /\ it_pc = "call"
    /\ Len(it_calls) < MaxItems + 2
    /\ it_calls' = Append(it_calls, it_start)
    /\ it_limits' = Append(it_limits, it_limit)
    /\ it_pc' = "raised"
    /\ UNCHANGED <<it_kind, it_limit, it_n, it_start, it_items, it_idx, it_pages, it_out,
                   it_requests, retryVars, batchVars, toolVars, matchVars,
                   convVars, envVars, listVars>>

\* yield zeep_to_dict(it)
IterYield ==
    /\ it_pc = "items"
    /\ it_idx < Len(it_items)
    /\ it_out' = Append(it_out, zeep_to_dict(it_items[it_idx + 1]))
    /\ it_idx' = it_idx + 1
    /\ it_pc' = AfterYield
    /\ UNCHANGED <<it_kind, it_limit, it_n, it_start, it_items, it_calls, it_pages,
                   it_limits, it_requests, retryVars, batchVars, toolVars, matchVars,
                   convVars, envVars, listVars>>

\* the for loop is over: break on a short page, else start += limit
IterPageEnd ==
    /\ it_pc = "items"
    /\ it_idx = Len(it_items)
    /\ IF LastPage(it_items, it_limit)
       THEN it_pc' = "done" /\ it_start' = it_start
       ELSE it_pc' = "call" /\ it_start' = NextStart(it_start, it_limit)
    /\ UNCHANGED <<it_kind, it_limit, it_n, it_items, it_idx, it_calls, it_pages, it_out,
                   it_limits, it_requests, retryVars, batchVars, toolVars, matchVars,
                   convVars, envVars, listVars>>

NextIter == ConsumerNext \/ ConsumerStop \/ ListCall \/ ListFault \/ IterYield \/ IterPageEnd

SpecIter == InitIter /\ [][NextIter]_vars

\* the generators with any limit argument (--limit is an int that is not
\* validated) and over listings that may have no end
InitIterAny ==
    /\ it_kind \in {"actors", "units"}
    /\ it_limit \in -1..MaxPageSize
    /\ it_n \in {Endless} \cup 0..MaxItems
    /\ it_start = 0
    /\ it_pc = "created"
    /\ it_items = <<>>
    /\ it_idx = 0
    /\ it_calls = <<>>
    /\ it_pages = <<>>
    /\ it_out = <<>>
    /\ it_limits = <<>>
    /\ it_requests = 0
    /\ RetryIdle
    /\ BatchIdle
    /\ ToolIdle
    /\ MatchIdle
    /\ ConvIdle
    /\ EnvIdle
    /\ ListIdle

SpecIterAny == InitIterAny /\ [][NextIter]_vars

----------------------------------------------------------------------------
(* Properties of the listing generators *)

\* C10: a remote call is made only after full pages (a page shorter than
\* limit is never followed by another call), and an iteration that ends has
\* made exactly n \div limit + 1 calls: its last page is short, and it is
\* the empty page exactly when n is a multiple of limit.
C10_PagingCallCount ==
    /\ \A k \in 1..(Len(it_calls) - 1) : it_pages[k] = it_limit
    /\ it_pc = "done" =>
          /\ Len(it_calls) = (it_n \div it_limit) + 1
          /\ Len(it_pages) = Len(it_calls)
          /\ Last(it_pages) < it_limit
          /\ (Last(it_pages) = 0) <=> (it_n % it_limit = 0)
          /\ Len(it_out) = it_n

C10_Witness ==
    /\ it_pc = "done"
    /\ it_n = 6
    /\ it_limit = 3
    /\ it_pages = <<3, 3, 0>>
    /\ it_calls = <<0, 3, 6>>

RECURSIVE SumSeq(_)
SumSeq(q) == IF q = <<>> THEN 0 ELSE q[1] + SumSeq(Tail(q))

\* C11: the k-th remote call of a listing generator is made with
\* startAb = (k - 1) * limit and with the limit the generator was given.
C11_OffsetCursor ==
    /\ Len(it_limits) = Len(it_calls)
    /\ \A k \in 1..Len(it_calls) :
          /\ it_calls[k] = (k - 1) * it_limit
          /\ it_limits[k] = it_limit

C11_Witness ==
    /\ it_limit = 2
    /\ it_n = 7
    /\ it_pc = "done"
    /\ it_calls = <<0, 2, 4, 6>>
    /\ it_pages = <<2, 2, 2, 1>>

\* C12: the generator is lazy.  No remote call precedes the first request;
\* the generator runs only while one request of the consumer is unanswered;
\* the call for a further page is made only when the consumer has asked for
\* more records than all earlier pages held; and once the consumer has
\* dropped the generator no remote call is made.
C12_Lazy ==
    /\ [](/\ it_pc = "created" => (it_calls = <<>> /\ it_requests = 0)
          /\ it_pc \in {"call", "items"} => it_requests = Len(it_out) + 1
          /\ it_pc = "yielded" => it_requests = Len(it_out)
          /\ it_calls # <<>> =>
                it_requests > SumSeq(SubSeq(it_pages, 1, Len(it_calls) - 1))
          /\ Len(it_out) >= SumSeq(SubSeq(it_pages, 1, Len(it_calls) - 1)))
    /\ [][it_pc = "closed" => it_calls' = it_calls]_vars

C12_Witness ==
    /\ it_pc = "closed"
    /\ it_limit = 2
    /\ it_n = 7
    /\ Len(it_out) = 3
    /\ it_calls = <<0, 2>>

\* C30: a listing generator ends only after a page shorter than limit; with
\* limit <= 0, or over a listing that serves a full page at every offset, no
\* page is shorter than limit, the generator never ends, and its calls go on
\* at the offsets 0, limit, 2 * limit, ... for as long as it is followed.
C30_NoPageBound ==
    /\ it_pc = "done" => (it_pages # <<>> /\ Last(it_pages) < it_limit)
    /\ (it_limit <= 0 \/ it_n = Endless) =>
          /\ it_pc # "done"
          /\ \A k \in 1..Len(it_pages) : it_pages[k] >= it_limit
          /\ \A k \in 1..Len(it_calls) : it_calls[k] = (k - 1) * it_limit
          /\ (it_pc = "call" /\ Len(it_calls) < MaxItems + 2) => ENABLED ListCall

C30_Witness ==
    /\ it_limit = 0
    /\ it_pc = "call"
    /\ Len(it_calls) = MaxItems + 2
    /\ \A k \in 1..Len(it_calls) : it_calls[k] = 0 /\ it_pages[k] = 0

C30_WitnessEndless ==
    /\ it_n = Endless
    /\ it_limit = 2
    /\ Len(it_calls) = MaxItems + 2
    /\ Last(it_calls) = 2 * (MaxItems + 1)
    /\ Len(it_out) = 2 * (MaxItems + 2)

----------------------------------------------------------------------------
(* Conversions of Python values used by the writers and the filter *)

\* A dict under construction is a function from keys to values: <<>> is the
\* empty dict, k :> v the dict of one entry, and b @@ a is a updated with b
\* (the entries of b win).

\* the attribute names of the model in the order of dir(obj) / sorted()
FieldOrder ==
    << "Adresse", "Bemerkung", "Einheiten", "Fax", "Marktakteur", "Marktakteure",
       "MastrNummer", "Name", "Ort", "Orte", "Parent", "Personenart", "Rollen" >>

\* the keys of a dict in iteration order (zeep_to_dict inserts them in dir() order)
KeysInOrder(f) == SelectSeq(FieldOrder, LAMBDA k : k \in DOMAIN f)

RECURSIVE JoinTokens(_, _)
\* sep.join(parts), every part a token sequence
JoinTokens(parts, sep) ==
    IF parts = <<>> THEN <<>>
    ELSE IF Len(parts) = 1 THEN parts[1]
    ELSE parts[1] \o sep \o JoinTokens(Tail(parts), sep)

RECURSIVE PyText(_, _)
\* the tokens of str(v) (quoted = FALSE) and of repr(v) (quoted = TRUE)
PyText(v, quoted) ==
    CASE v.t = "none" -> <<"None">>
      [] v.t = "str" -> IF quoted THEN <<"'">> \o v.v \o <<"'">> ELSE v.v
      [] v.t = "int" -> <<ToString(v.v)>>
      [] v.t = "list" ->
            <<"[">> \o JoinTokens([i \in 1..Len(v.items) |-> PyText(v.items[i], TRUE)], <<", ">>)
                    \o <<"]">>
      [] v.t = "dict" ->
            LET ks == KeysInOrder(v.fields)
            IN <<"{">> \o JoinTokens([i \in 1..Len(ks) |->
                              <<"'", ks[i], "'", ": ">> \o PyText(v.fields[ks[i]], TRUE)],
                          <<", ">>)
                       \o <<"}">>
      [] OTHER -> <<"<object>">>

\* str(v)
PyStr(v) == Str(PyText(v, FALSE))

\* f"{parent_key}{sep}{k}" if parent_key else k      (sep = "_")
NewKey(parent_key, k) == IF parent_key # <<>> THEN parent_key \o <<"_", k>> ELSE <<k>>

RECURSIVE FlattenAB(_, _), FlattenABItems(_, _, _, _)
\* the loop of flatten_dict of fetch_anlagenbetreiber over the keys still to visit
FlattenABItems(f, keys, parent_key, acc) ==
    IF keys = <<>> THEN acc
    ELSE LET k == Head(keys)
             v == f[k]
             new_key == NewKey(parent_key, k)
             add == CASE v.t = "dict" -> FlattenAB(v, new_key)
                      [] v.t = "list" -> (new_key :> PyStr(v))
                      [] OTHER -> (new_key :> v)
         IN FlattenABItems(f, Tail(keys), parent_key, (add @@ acc))

\* flatten_dict(d, parent_key) of fetch_anlagenbetreiber
FlattenAB(d, parent_key) == FlattenABItems(d.fields, KeysInOrder(d.fields), parent_key, <<>>)

RECURSIVE FlattenMA(_, _), FlattenMAItems(_, _, _, _), FlattenMAList(_, _, _, _)
\* the list of dicts case: flatten item i under f"{new_key}_{i}" and merge
FlattenMAList(items, i, new_key, acc) ==
    IF i > Len(items) THEN acc
    ELSE FlattenMAList(items, i + 1, new_key,
            (FlattenMA(items[i], new_key \o <<"_", ToString(i - 1)>>) @@ acc))

\* the loop of flatten_dict of fetch_marktakteur over the keys still to visit
FlattenMAItems(f, keys, parent_key, acc) ==
    IF keys = <<>> THEN acc
    ELSE LET k == Head(keys)
             v == f[k]
             new_key == NewKey(parent_key, k)
             add == CASE v.t = "dict" -> FlattenMA(v, new_key)
                      [] v.t = "list" ->
                            IF Len(v.items) > 0 /\ v.items[1].t = "dict"
                            THEN FlattenMAList(v.items, 1, new_key, <<>>)
                            ELSE (new_key :>
                                    Str(JoinTokens([i \in 1..Len(v.items) |->
                                                       PyText(v.items[i], FALSE)], <<", ">>)))
                      [] OTHER -> (new_key :> v)
         IN FlattenMAItems(f, Tail(keys), parent_key, (add @@ acc))

\* flatten_dict(d, parent_key) of fetch_marktakteur
FlattenMA(d, parent_key) ==
    IF d.t # "dict" THEN (IF parent_key # <<>> THEN (parent_key :> d) ELSE <<>>)
    ELSE FlattenMAItems(d.fields, KeysInOrder(d.fields), parent_key, <<>>)

\* flatten_dict(d) of the given tool
flatten_dict(tool_name, d) ==
    IF tool_name = "anlagenbetreiber" THEN FlattenAB(d, <<>>) ELSE FlattenMA(d, <<>>)

----------------------------------------------------------------------------
(* The CSV files.  A row is a function from column names to cells; a name  *)
(* and a cell of the input file are token sequences, a value handed to a   *)
(* writer is a Python value.  A file is the record                         *)
(*   opened      open(path, 'w') was executed                              *)
(*   fieldnames  the columns of the header                                 *)
(*   rows        the rows written so far                                   *)
(*   raised      a writerow call raised                                    *)

IdColAB == <<"MaStR-Nr. des Anlagenbetreibers">>
TabIdColAB == <<"\t", "MaStR-Nr. des Anlagenbetreibers">>
IdColMA == <<"MaStR-Nr.">>
NameCol == <<"Name">>
mastr_num_col == <<"MaStRNummer">>

\* the columns of the input file of a tool, in file order
InputCols(tool_name) ==
    IF tool_name = "anlagenbetreiber" THEN <<IdColAB, NameCol>> ELSE <<IdColMA, NameCol>>

\* the text of identifier i in a file
IdText(i) == <<ToString(i)>>

RECURSIVE StripLeft(_, _)
StripLeft(s, chars) ==
    IF s # <<>> /\ Head(s) \in chars THEN StripLeft(Tail(s), chars) ELSE s

RECURSIVE StripRight(_, _)
StripRight(s, chars) ==
    IF s # <<>> /\ s[Len(s)] \in chars THEN StripRight(SubSeq(s, 1, Len(s) - 1), chars) ELSE s

\* s.strip() and s.strip(ch)
Strip(s) == StripRight(StripLeft(s, {" ", "\t"}), {" ", "\t"})
StripChar(s, ch) == StripRight(StripLeft(s, {ch}), {ch})

\* row.get(col): a missing column reads as the empty text (both are falsy)
RowGet(row, col) == IF col \in DOMAIN row THEN row[col] ELSE <<>>

\* the identifier text the anlagenbetreiber tool takes from a row, before strip
RowIdAB(row) ==
    IF RowGet(row, IdColAB) # <<>> THEN RowGet(row, IdColAB) ELSE RowGet(row, TabIdColAB)

\* 'MaStR' in key or 'MaStr' in key
IsMastrKey(col) == col \in {IdColAB, TabIdColAB, IdColMA}

RECURSIVE ScanMastrKeys(_, _)
\* the key loop of the marktakteur tool: the first such column with a value
ScanMastrKeys(row, cols) ==
    IF cols = <<>> THEN <<>>
    ELSE IF IsMastrKey(Head(cols)) /\ Strip(RowGet(row, Head(cols))) # <<>>
         THEN Strip(StripChar(StripChar(Strip(RowGet(row, Head(cols))), "\""), "'"))
         ELSE ScanMastrKeys(row, Tail(cols))

\* the identifier text the marktakteur tool takes from a row (every fallback
\* column name is a key the loop has already visited)
RowIdMA(row) ==
    LET m == ScanMastrKeys(row, InputCols("marktakteur"))
    IN Strip(StripChar(StripChar(m, "\""), "'"))

\* read_stromerzeuger_csv / read_marktakteur_csv: the unique identifiers
ReadIds(tool_name, rows) ==
    {i \in Ids : \E n \in 1..Len(rows) :
        IF tool_name = "anlagenbetreiber"
        THEN RowIdAB(rows[n]) # <<>> /\ Strip(RowIdAB(rows[n])) = IdText(i)
        ELSE RowIdMA(rows[n]) = IdText(i)}

\* csv.DictWriter.writerow raises ValueError for a key outside fieldnames
RowRaises(fieldnames, row) == ~(DOMAIN row \subseteq fieldnames)

\* the text of a cell: None is written as the empty text, the rest as str(v)
CsvCell(v) == IF v.t = "none" THEN <<>> ELSE PyText(v, FALSE)

\* the row as written: a column the dict lacks gets restval ''
WrittenRow(fieldnames, row) ==
    [c \in fieldnames |-> IF c \in DOMAIN row THEN CsvCell(row[c]) ELSE <<>>]

RECURSIVE WriteRows(_, _, _)
\* writer.writeheader() and writer.writerow(row) for each row in turn
WriteRows(fieldnames, rows, acc) ==
    IF rows = <<>>
    THEN [opened |-> TRUE, fieldnames |-> fieldnames, rows |-> acc, raised |-> FALSE]
    ELSE IF RowRaises(fieldnames, Head(rows))
         THEN [opened |-> TRUE, fieldnames |-> fieldnames, rows |-> acc, raised |-> TRUE]
         ELSE WriteRows(fieldnames, Tail(rows), Append(acc, WrittenRow(fieldnames, Head(rows))))

\* the flattened keys of every result that has data
FetchedKeys(tool_name, res) ==
    UNION {DOMAIN flatten_dict(tool_name, res[i].data) : i \in {j \in DOMAIN res : Truthy(res[j].data)}}

\* the row save_anlagenbetreiber_csv builds for one identifier
TableRowAB(i, result) ==
    (mastr_num_col :> IntV(i))
        @@ (IF Truthy(result.data) THEN flatten_dict("anlagenbetreiber", result.data) ELSE <<>>)
        @@ (<<"error">> :> result.error)

save_anlagenbetreiber_csv(res) ==
    IF DOMAIN res = {} THEN NotWritten
    ELSE LET all_keys == FetchedKeys("anlagenbetreiber", res) \cup {<<"error">>, mastr_num_col}
             order == SortedList(DOMAIN res)
         IN WriteRows(all_keys, [n \in 1..Len(order) |-> TableRowAB(order[n], res[order[n]])], <<>>)

\* the row save_marktakteur_csv builds for one identifier
TableRowMA(i, result) ==
    IF Truthy(result.data)
    THEN (flatten_dict("marktakteur", result.data) @@ (mastr_num_col :> IntV(i)))
    ELSE ((<<"Error">> :> result.error) @@ (mastr_num_col :> IntV(i)))

save_marktakteur_csv(res) ==
    LET fieldnames == {mastr_num_col} \cup FetchedKeys("marktakteur", res)
        order == SortedList(DOMAIN res)
    IN WriteRows(fieldnames, [n \in 1..Len(order) |-> TableRowMA(order[n], res[order[n]])], <<>>)

\* the keys of f with the namespace prefix put in front
PrefixKeys(prefix, f) == [c \in {<<prefix>> \o k : k \in DOMAIN f} |-> f[Tail(c)]]

\* the key None, under which csv.DictReader (restkey=None) puts the list of
\* the fields a row has beyond the header
RestKey == <<"<None>">>

\* a row of the input file as the dict csv.DictReader gives: strings, and the
\* list of the surplus fields under the key None
AsDict(row) ==
    [c \in DOMAIN row |-> IF c = RestKey THEN ListV(<<Str(row[c])>>) ELSE Str(row[c])]

\* the identifier of the result map whose text is m (0: none)
ResultKey(res, m) ==
    IF \E i \in DOMAIN res : IdText(i) = m
    THEN CHOOSE i \in DOMAIN res : IdText(i) = m
    ELSE 0

\* the merged row of fetch_anlagenbetreiber.merge_csvs for one base row
MergedRowAB(row, res, prefixed_ab_cols) ==
    LET raw == RowIdAB(row)
        mastr_num == IF raw # <<>> THEN Strip(raw) ELSE raw
        key == ResultKey(res, mastr_num)
        blanks == [c \in prefixed_ab_cols |-> Str(<<>>)]
    IN IF mastr_num # <<>> /\ key # 0
       THEN LET result == res[key]
                with_error ==
                    (<<"AB_", "error">> :>
                        (IF Truthy(result.error) THEN result.error ELSE Str(<<>>)))
                    @@ AsDict(row)
            IN IF Truthy(result.data)
               THEN (PrefixKeys("AB_", flatten_dict("anlagenbetreiber", result.data)) @@ with_error)
               ELSE (with_error @@ blanks)
       ELSE blanks
            @@ (<<"AB_", "error">> :>
                   (IF mastr_num # <<>> THEN Str(<<"not_found">>) ELSE Str(<<"no_mastr_num">>)))
            @@ AsDict(row)

\* merge_csvs of fetch_anlagenbetreiber
merge_csvs_ab(rows, res) ==
    IF rows = <<>> THEN NotWritten
    ELSE LET prefixed_ab_cols ==
                 {<<"AB_">> \o k : k \in FetchedKeys("anlagenbetreiber", res)}
             all_cols == DOMAIN rows[1] \cup prefixed_ab_cols \cup {<<"AB_", "error">>}
         IN WriteRows(all_cols,
                      [n \in 1..Len(rows) |-> MergedRowAB(rows[n], res, prefixed_ab_cols)], <<>>)

\* the merged row of fetch_marktakteur.merge_csvs for one base row
MergedRowMA(row, res, original_fieldnames) ==
    LET mastr_num == RowIdMA(row)
        key == ResultKey(res, mastr_num)
    IN IF mastr_num # <<>> /\ key # 0 /\ Truthy(res[key].data)
       THEN LET fetched_data == flatten_dict("marktakteur", res[key].data)
                fresh == [k \in DOMAIN fetched_data \ original_fieldnames |-> fetched_data[k]]
            IN (PrefixKeys("MA_", fresh) @@ AsDict(row))
       ELSE AsDict(row)

\* merge_csvs of fetch_marktakteur; sorted() of the original field names
\* raises TypeError, before the file is opened, when the key None is among them
merge_csvs_ma(rows, res) ==
    LET original_fieldnames == UNION {DOMAIN rows[n] : n \in 1..Len(rows)}
        merged_fieldnames ==
            original_fieldnames \cup
            {<<"MA_">> \o k : k \in FetchedKeys("marktakteur", res) \ original_fieldnames}
    IN IF RestKey \in original_fieldnames /\ original_fieldnames # {RestKey}
       THEN [NotWritten EXCEPT !.raised = TRUE]
       ELSE WriteRows(merged_fieldnames,
                      [n \in 1..Len(rows) |-> MergedRowMA(rows[n], res, original_fieldnames)], <<>>)

----------------------------------------------------------------------------
(* One record on its way from the service to the cells of a CSV row:       *)
(* zeep_to_dict of the returned object, then flatten_dict of the result.   *)

\* the field names of the returned object
ConvFields == {<<"Adresse", "Orte", "Name", "Rollen">>[i] : i \in 1..MaxFields}

InitConvert ==
    /\ \E f \in [ConvFields ->
                    {NoneV, Str(<<"Kiel">>),
                     ListV(<<>>), ListV(<<NoneV>>), ListV(<<Str(<<"Kiel">>)>>),
                     ListV(<<ObjV([Ort |-> NoneV])>>),
                     ListV(<<ObjV([Ort |-> Str(<<"Kiel">>)])>>),
                     ObjV([Ort |-> NoneV]),
                     ObjV([Ort |-> Str(<<"Kiel">>), Fax |-> NoneV])}] :
          cv_raw = ObjV(f)
    /\ cv_rec = NoneV
    /\ cv_flat = [tool |-> "none", cells |-> <<>>]
    /\ cv_pc = "raw"
    /\ RetryIdle
    /\ BatchIdle
    /\ IterIdle
    /\ ToolIdle
    /\ MatchIdle
    /\ EnvIdle
    /\ ListIdle

\* data = zeep_to_dict(obj)
Normalize ==
    /\ cv_pc = "raw"
    /\ cv_rec' = zeep_to_dict(cv_raw)
    /\ cv_pc' = "normalized"
    /\ UNCHANGED <<cv_raw, cv_flat, retryVars, batchVars, iterVars, toolVars, matchVars,
                   envVars, listVars>>

\* if result['data']: flattened = flatten_dict(result['data'])
Flatten ==
    /\ cv_pc = "normalized"
    /\ Truthy(cv_rec)
    /\ \E tool_name \in {"anlagenbetreiber", "marktakteur"} :
          cv_flat' = [tool |-> tool_name, cells |-> flatten_dict(tool_name, cv_rec)]
    /\ cv_pc' = "flattened"
    /\ UNCHANGED <<cv_raw, cv_rec, retryVars, batchVars, iterVars, toolVars, matchVars,
                   envVars, listVars>>

NextConvert == Normalize \/ Flatten

SpecConvert == InitConvert /\ [][NextConvert]_vars

----------------------------------------------------------------------------
(* main() and the __main__ block of the two batch tools, from the point    *)
(* where the credentials were found.  Position of main:                    *)
(*   "start"   about to read the input file                                *)
(*   "batch"   inside batch_fetch_marktakteure                             *)
(*   "merge"   the standalone table is written, merge_csvs comes next      *)
(*   "exited"  the process has ended                                       *)

Exit(code) == [kind |-> "exit", code |-> code]
Killed(sig) == [kind |-> "signal", sig |-> sig]

\* an input file: one row per identifier of S, then (blank) a row without identifier
InputRows(tool_name, S, blank) ==
    LET order == SortedList(S)
        idcol == InputCols(tool_name)[1]
    IN [n \in 1..Len(order) |->
            ((idcol :> (<<" ">> \o IdText(order[n]))) @@ (NameCol :> <<"Anlage">>))]
       \o (IF blank THEN << ((idcol :> <<>>) @@ (NameCol :> <<"Ohne">>)) >> ELSE <<>>)

\* how the interpreter ends on an exception that left main()
UncaughtExit(tool_name, keyboard_interrupt) ==
    IF tool_name = "anlagenbetreiber"
    THEN {Exit(IF keyboard_interrupt THEN 130 ELSE 1)}
    ELSE IF keyboard_interrupt THEN {Exit(1), Killed(2)} ELSE {Exit(1)}

InitTool ==
    /\ tool \in {"anlagenbetreiber", "marktakteur"}
    /\ \E S \in SUBSET Ids, blank \in BOOLEAN : base_rows = InputRows(tool, S, blank)
    /\ main_pc = "start"
    /\ interrupted = FALSE
    /\ exit_status = StillRunning
    /\ out_table = NotWritten
    /\ out_merged = NotWritten
    /\ mastr_nums = <<>>
    /\ max_workers \in 1..MaxWorkers
    /\ futures = <<>>
    /\ results = <<>>
    /\ completed = 0
    /\ batch_pc = "idle"
    /\ started = [i \in Ids |-> 0]
    /\ RetryIdle
    /\ IterIdle
    /\ MatchIdle
    /\ ConvIdle
    /\ EnvIdle
    /\ ListIdle

\* main reads the input file and enters batch_fetch_marktakteure
MainStart ==
    /\ main_pc = "start"
    /\ LET unique_mastr_nums == ReadIds(tool, base_rows)
       IN IF tool = "anlagenbetreiber" /\ unique_mastr_nums = {}
          THEN /\ main_pc' = "exited"
               /\ exit_status' = Exit(1)
               /\ UNCHANGED <<mastr_nums, batch_pc>>
          ELSE /\ main_pc' = "batch"
               /\ mastr_nums' = SortedList(unique_mastr_nums)
               /\ batch_pc' = IF unique_mastr_nums = {} THEN "collect" ELSE "submit"
               /\ UNCHANGED exit_status
    /\ UNCHANGED <<tool, base_rows, interrupted, out_table, out_merged,
                   max_workers, futures, results, completed, started, retryVars, iterVars, matchVars,
                   convVars, envVars, listVars>>

\* Ctrl-C: KeyboardInterrupt is raised in the main thread inside the with block
Interrupt ==
    /\ main_pc = "batch"
    /\ batch_pc \in {"submit", "collect"}
    /\ interrupted' = TRUE
    /\ batch_pc' = "aborting"
    /\ UNCHANGED <<tool, main_pc, base_rows, exit_status, out_table, out_merged,
                   mastr_nums, max_workers, futures, results, completed, started,
                   retryVars, iterVars, matchVars, convVars, envVars, listVars>>

\* the exception that left batch_fetch_marktakteure leaves main
MainAbort ==
    /\ main_pc = "batch"
    /\ batch_pc = "raised"
    /\ main_pc' = "exited"
    /\ exit_status' \in UncaughtExit(tool, interrupted)
    /\ UNCHANGED <<tool, base_rows, interrupted, out_table, out_merged,
                   batchVars, retryVars, iterVars, matchVars, convVars, envVars, listVars>>

\* save_anlagenbetreiber_csv / save_marktakteur_csv
MainSave ==
    /\ main_pc = "batch"
    /\ batch_pc = "returned"
    /\ out_table' = IF tool = "anlagenbetreiber" THEN save_anlagenbetreiber_csv(results)
                              ELSE save_marktakteur_csv(results)
    /\ IF out_table'.raised
       THEN /\ main_pc' = "exited"
            /\ exit_status' \in UncaughtExit(tool, FALSE)
       ELSE /\ main_pc' = "merge"
            /\ UNCHANGED exit_status
    /\ UNCHANGED <<tool, base_rows, interrupted, out_merged, batchVars, retryVars, iterVars, matchVars,
                   convVars, envVars, listVars>>

\* merge_csvs, then return 0
MainMerge ==
    /\ main_pc = "merge"
    /\ out_merged' = IF tool = "anlagenbetreiber" THEN merge_csvs_ab(base_rows, results)
                               ELSE merge_csvs_ma(base_rows, results)
    /\ main_pc' = "exited"
    /\ IF out_merged'.raised
       THEN exit_status' \in UncaughtExit(tool, FALSE)
       ELSE exit_status' = Exit(0)
    /\ UNCHANGED <<tool, base_rows, interrupted, out_table, batchVars, retryVars, iterVars, matchVars,
                   convVars, envVars, listVars>>

\* merge_csvs as a function of its two arguments: every list of base rows
\* (with or without a row that has a field more than the header) and every
\* result map over some of the identifiers
InitMerge ==
    /\ tool \in {"anlagenbetreiber", "marktakteur"}
    /\ \E S \in SUBSET Ids, blank \in BOOLEAN, ragged \in BOOLEAN :
          base_rows = InputRows(tool, S, blank)
              \o (IF ragged
                  THEN << ((InputCols(tool)[1] :> IdText(1)) @@ (NameCol :> <<"Anlage">>)
                              @@ (RestKey :> <<"extra">>)) >>
                  ELSE <<>>)
    /\ \E T \in SUBSET Ids :
          results \in [T -> {[data |-> zeep_to_dict(Record), error |-> NoneV],
                            [data |-> DictV([Ort |-> Str(<<"Kiel">>)]), error |-> NoneV],
                            [data |-> NoneV, error |-> Str(<<"not_found">>)],
                            [data |-> NoneV, error |-> NoneV]}]
    /\ main_pc = "merge"
    /\ interrupted = FALSE
    /\ exit_status = StillRunning
    /\ out_table = NotWritten
    /\ out_merged = NotWritten
    /\ mastr_nums = <<>>
    /\ max_workers = 1
    /\ futures = <<>>
    /\ completed = 0
    /\ batch_pc = "returned"
    /\ started = [i \in Ids |-> 0]
    /\ RetryIdle
    /\ IterIdle
    /\ MatchIdle
    /\ ConvIdle
    /\ EnvIdle
    /\ ListIdle

SpecMerge == InitMerge /\ [][MainMerge]_vars

----------------------------------------------------------------------------
(* The start of a tool: the two credentials are read from the environment  *)
(* before anything else is done.  The tools are the two batch tools,       *)
(* fetch_filtered_storage ("filtered_storage") and the two commands of     *)
(* master_fetch ("actors", "storage_units").                               *)

\* the value a tool reads for one variable: os.getenv(name, "").strip(), and
\* os.getenv(name) in fetch_marktakteur
Credential(tool_name, v) ==
    IF tool_name = "marktakteur" THEN v
    ELSE IF v = NoneV THEN Str(<<>>) ELSE Str(Strip(v.v))

\* a test that looks at the API key only
CredentialsMissing_KeyOnly(tool_name, key, nr) ==
    ~Truthy(Credential(tool_name, key))

\* if not api_key ... if not marktakteur ...: in main of the three fetch
\* tools, in MastrClient.__init__ for the commands of master_fetch
CredentialsMissing(tool_name, key, nr) ==
    ~Truthy(Credential(tool_name, key)) \/ ~Truthy(Credential(tool_name, nr))

InitStart ==
    /\ tool \in {"anlagenbetreiber", "marktakteur", "filtered_storage", "actors", "storage_units"}
    /\ env_api_key \in {NoneV, Str(<<>>), Str(<<" ">>), Str(<<"key">>)}
    /\ env_mastr_nr \in {NoneV, Str(<<>>), Str(<<" ">>), Str(<<"SOM1">>)}
    /\ main_pc = "launch"
    /\ base_rows = <<>>
    /\ interrupted = FALSE
    /\ exit_status = StillRunning
    /\ out_table = NotWritten
    /\ out_merged = NotWritten
    /\ RetryIdle
    /\ BatchIdle
    /\ IterIdle
    /\ MatchIdle
    /\ ConvIdle
    /\ ListIdle

\* the credentials are read and tested: return 1 (the fetch tools) or
\* ValueError out of main (master_fetch, exit status 1), else the run goes on
Startup ==
    /\ main_pc = "launch"
    /\ IF CredentialsMissing(tool, env_api_key, env_mastr_nr)
       THEN /\ main_pc' = "exited"
            /\ exit_status' = Exit(1)
       ELSE /\ main_pc' = "start"
            /\ UNCHANGED exit_status
    /\ UNCHANGED <<tool, base_rows, interrupted, out_table, out_merged,
                   batchVars, retryVars, iterVars, matchVars, convVars, envVars, listVars>>

SpecStart == InitStart /\ [][Startup]_vars

NextTool ==
    \/ MainStart \/ Interrupt \/ MainAbort \/ MainSave \/ MainMerge
    \/ Submit \/ WorkerStart \/ WorkerCall \/ WorkerWake \/ Collect \/ BatchReturn

SpecTool == InitTool /\ [][NextTool]_vars

----------------------------------------------------------------------------
(* Properties of the batch tools *)

\* C13 (as claimed): once the user interrupt has reached
\* batch_fetch_marktakteure, no fetch of an identifier that had not been
\* started is begun any more.
C13_InterruptStopsBatch ==
    [][interrupted => started' = started]_vars

\* C14 (as claimed): neither output file is opened before the batch has
\* returned with an outcome for every identifier, and a run that was
\* interrupted during the batch ends with exit code 130 and no file written.
C14_OutputAfterBatchExit130 ==
    /\ (out_table.opened \/ out_merged.opened) =>
          (batch_pc = "returned" /\ DOMAIN results = Range(mastr_nums))
    /\ (interrupted /\ main_pc = "exited") =>
          (exit_status = Exit(130) /\ ~out_table.opened /\ ~out_merged.opened)

ErrorCols == {<<"error">>, <<"Error">>}

\* the standalone table has a row of identifier i with the error text in an error column
HasErrorRow(file, i, err) ==
    \E n \in 1..Len(file.rows) : \E c \in ErrorCols \cap file.fieldnames :
        /\ file.rows[n][mastr_num_col] = IdText(i)
        /\ file.rows[n][c] = CsvCell(err)

\* every outcome of the result map is a record or a failure with its error text
TaggedOutcomes(res) == \A i \in DOMAIN res : Truthy(res[i].data) \/ res[i].error # NoneV

\* C15 (as claimed): whatever mix of records and failures the result map
\* holds, once the batch has returned both writers complete, every failed
\* identifier has a row with its error text in the standalone table, and the
\* process exits 0.
C15_FailuresNeverAbort ==
    (main_pc = "exited" /\ batch_pc = "returned" /\ TaggedOutcomes(results)) =>
        /\ exit_status = Exit(0)
        /\ out_table.opened /\ ~out_table.raised /\ Len(out_table.rows) = Len(mastr_nums)
        /\ out_merged.opened /\ ~out_merged.raised /\ Len(out_merged.rows) = Len(base_rows)
        /\ \A i \in DOMAIN results :
              results[i].error # NoneV => HasErrorRow(out_table, i, results[i].error)

----------------------------------------------------------------------------
(* matches_criteria of fetch_filtered_storage.  A text is a sequence of    *)
(* tokens (pieces of words); the text of a power rating is a sequence of   *)
(* characters.                                                             *)

MaxCalls == 2          \* matches_criteria is called 1..MaxCalls times on the same inputs

PowerThreshold == 150

\* get_nested_value(data, *keys)
RECURSIVE get_nested_value(_, _)
get_nested_value(current, keys) ==
    IF keys = <<>> THEN current
    ELSE IF current.t = "dict"
         THEN LET nxt == IF Head(keys) \in DOMAIN current.fields
                         THEN current.fields[Head(keys)] ELSE NoneV
              IN IF nxt = NoneV THEN NoneV ELSE get_nested_value(nxt, Tail(keys))
         ELSE NoneV

\* vals[1] or vals[2] or ... : the first truthy value, else the last one
RECURSIVE OrChain(_)
OrChain(vals) ==
    IF Len(vals) = 1 THEN vals[1]
    ELSE IF Truthy(vals[1]) THEN vals[1] ELSE OrChain(Tail(vals))

\* pat in s
IsSubstr(pat, s) ==
    \E i \in 1..(Len(s) - Len(pat) + 1) : SubSeq(s, i, i + Len(pat) - 1) = pat

\* str.lower() that leaves the text as it is
Lower_Identity(s) == [i \in 1..Len(s) |-> s[i]]

\* str.lower(), token by token
Lower(s) ==
    [i \in 1..Len(s) |->
        CASE s[i] = "Natürlich" -> "natürlich"
          [] s[i] = "Natural" -> "natural"
          [] s[i] = "Person" -> "person"
          [] s[i] = "Unternehmen" -> "unternehmen"
          [] s[i] = "GmbH" -> "gmbh"
          [] OTHER -> s[i]]

DigitVal(c) == CHOOSE n \in 0..9 : ToString(n) = c

RECURSIVE Pow10(_)
Pow10(n) == IF n = 0 THEN 1 ELSE 10 * Pow10(n - 1)

\* the number written by a sequence of digits
RECURSIVE DigitsVal(_)
DigitsVal(s) == IF s = <<>> THEN 0 ELSE 10 * DigitsVal(SubSeq(s, 1, Len(s) - 1)) + DigitVal(s[Len(s)])

NaN == [k |-> "nan"]
Num(mant, frac) == [k |-> "num", mant |-> mant, frac |-> frac]   \* mant / 10^frac
FloatError == [k |-> "error"]

\* float(s) of a str: digits with at most one decimal point, or "nan"
StrToFloat(chars) ==
    LET s == Strip(chars)
        dots == {i \in 1..Len(s) : s[i] = "."}
    IN IF s = <<"n", "a", "n">> THEN NaN
       ELSE IF s = <<>> \/ \E i \in 1..Len(s) : s[i] \notin {ToString(n) : n \in 0..9} \cup {"."} THEN FloatError
       ELSE IF dots = {} THEN Num(DigitsVal(s), 0)
       ELSE IF Cardinality(dots) > 1 \/ Len(s) = 1 THEN FloatError
       ELSE LET d == CHOOSE i \in dots : TRUE
            IN Num(DigitsVal(SubSeq(s, 1, d - 1) \o SubSeq(s, d + 1, Len(s))), Len(s) - d)

\* float(bruttoleistung) if isinstance(bruttoleistung, (int, float, str)) else None;
\* ValueError of float() is FloatError
ToFloat(v) ==
    CASE v.t = "int" -> Num(v.v, 0)
      [] v.t = "str" -> StrToFloat(v.v)
      [] OTHER -> NoneV

\* power_kw <= 150.0
AtMostThreshold(x) == x.k = "num" /\ x.mant <= PowerThreshold * Pow10(x.frac)

technologie(details) ==
    OrChain(<< get_nested_value(details, <<"TechnologieDerStromspeicherung">>),
               get_nested_value(details, <<"EinheitStromSpeicher", "TechnologieDerStromspeicherung">>),
               get_nested_value(details, <<"Technologie">>),
               get_nested_value(details, <<"Speichertechnologie">>) >>)

batterietechnologie(details) ==
    OrChain(<< get_nested_value(details, <<"Batterietechnologie">>),
               get_nested_value(details, <<"EinheitStromSpeicher", "Batterietechnologie">>),
               get_nested_value(details, <<"BatterieTechnologie">>),
               get_nested_value(details, <<"BatterieTechnologieEnum">>) >>)

bruttoleistung(details, einheit) ==
    OrChain(<< get_nested_value(details, <<"Bruttoleistung">>),
               get_nested_value(details, <<"EinheitStromSpeicher", "Bruttoleistung">>),
               get_nested_value(details, <<"BruttoleistungEinheit">>),
               get_nested_value(details, <<"BruttoLeistung">>),
               get_nested_value(einheit, <<"Bruttoleistung">>),
               get_nested_value(einheit, <<"Leistung">>) >>)

anlagenbetreiber_mastr(details, einheit) ==
    OrChain(<< get_nested_value(details, <<"AnlagenbetreiberMastrNummer">>),
               get_nested_value(details, <<"EinheitStromSpeicher", "AnlagenbetreiberMastrNummer">>),
               get_nested_value(details, <<"BetreiberMastrNummer">>),
               get_nested_value(einheit, <<"AnlagenbetreiberMastrNummer">>),
               get_nested_value(einheit, <<"BetreiberMastrNummer">>) >>)

\* criterion 1: the technology names a battery
Criterion1Passes(details) ==
    /\ Truthy(technologie(details))
    /\ IsSubstr(<<"Batterie">>, PyText(technologie(details), FALSE))

\* criterion 2: the battery technology names lithium
Criterion2Passes(details) ==
    /\ Truthy(batterietechnologie(details))
    /\ LET batterie_str == PyText(batterietechnologie(details), FALSE)
       IN \/ IsSubstr(<<"Lithium", "-", "Ionen">>, batterie_str)
          \/ IsSubstr(<<"Lithium", "Ionen">>, batterie_str)
          \/ IsSubstr(<<"Lithium">>, batterie_str)

\* criterion 3: the power rating is a number above the threshold
Criterion3Passes(details, einheit) ==
    LET b == bruttoleistung(details, einheit)
    IN /\ b # NoneV
       /\ ToFloat(b) # NoneV
       /\ ToFloat(b) # FloatError
       /\ ~AtMostThreshold(ToFloat(b))

\* "natürlich" in value_str or "natural" in value_str, value_str = str(value).lower()
MarksNaturalPerson(value) ==
    /\ Truthy(value)
    /\ \/ IsSubstr(<<"natürlich">>, Lower(PyText(value, FALSE)))
       \/ IsSubstr(<<"natural">>, Lower(PyText(value, FALSE)))

DirectFields == {"AnlagenbetreiberTyp", "BetreiberTyp", "Personenart", "Rechtsform", "PersonenArt"}
OperatorFields == {"Personenart", "PersonenArt", "Rechtsform", "Typ"}

\* the loop over the direct type fields of the detail and the summary record
DirectMarker(details, einheit) ==
    \E field \in DirectFields :
        MarksNaturalPerson(OrChain(<< get_nested_value(details, <<field>>),
                                      get_nested_value(details, <<"EinheitStromSpeicher", field>>),
                                      get_nested_value(einheit, <<field>>) >>))

\* the loop over the type fields of the fetched operator record
OperatorMarker(operator_details) ==
    \E field \in OperatorFields :
        /\ field \in DOMAIN operator_details.fields
        /\ MarksNaturalPerson(operator_details.fields[field])

\* the condition of the nested fetch, without the test of is_natural_person
NeedsFetch_IgnoreMarker(natural, details, einheit, client) ==
    /\ Truthy(anlagenbetreiber_mastr(details, einheit))
    /\ client.kind # "none"

\* if not is_natural_person and anlagenbetreiber_mastr and client
NeedsFetch(natural, details, einheit, client) ==
    /\ ~natural
    /\ Truthy(anlagenbetreiber_mastr(details, einheit))
    /\ client.kind # "none"

\* an except clause that counts the failed fetch as a natural person
FetchOutcome_FailureRejects(client) ==
    CASE client.kind = "exc" -> TRUE
      [] client.kind = "resp" /\ client.value.t # "dict" -> TRUE
      [] OTHER -> OperatorMarker(client.value)

\* is_natural_person after the try block: an exception of the call, or of
\* operator_details.get on a value that is no dict, is caught and leaves it False
FetchOutcome(client) ==
    CASE client.kind = "exc" -> FALSE
      [] client.kind = "resp" /\ client.value.t # "dict" -> FALSE
      [] OTHER -> OperatorMarker(client.value)

NaturalText == <<"Natürlich", "e", " ", "Person">>

\* the client argument: None, or a stub whose get_marktakteur_details returns
\* a fixed value or raises
Clients ==
    { [kind |-> "none"],
      Resp(DictV([Personenart |-> Str(<<"Unternehmen">>)])),
      Resp(DictV([Personenart |-> Str(NaturalText)])),
      Resp(EmptyDict),
      ExcR(<<"RuntimeError">>) }

\* the detail and the summary record are dicts with any of the fields below
\* present (Absent: the record does not have the field)
InitMatch ==
    LET Absent == [t |-> "absent"]
        MkDict(f) == DictV([k \in {x \in DOMAIN f : f[x] # Absent} |-> f[k]])
    IN
    /\ \E tech \in {Absent, Str(<<>>), Str(<<"Batterie">>), Str(<<"Pumpspeicher">>)},
          nested \in {Absent,
                      DictV([TechnologieDerStromspeicherung |-> Str(<<"Batterie", "speicher">>)])},
          batt \in {Absent, Str(<<"Lithium", "-", "Ionen", "-", "Akku">>), Str(<<"Blei">>)},
          power \in {Absent, IntV(0), IntV(100), IntV(150), IntV(200),
                     Str(<<"2", "0", "0">>), Str(<<"1", "5", "0", ".", "5">>),
                     Str(<<"1", "5", "0", ",", "5">>), Str(<<"n", "a", "n">>),
                     ListV(<<IntV(200)>>)},
          op \in {Absent, Str(<<"ABR1">>)},
          typ \in {Absent, Str(NaturalText), Str(<<"GmbH">>)} :
          m_details = MkDict([TechnologieDerStromspeicherung |-> tech,
                              EinheitStromSpeicher |-> nested,
                              Batterietechnologie |-> batt,
                              Bruttoleistung |-> power,
                              AnlagenbetreiberMastrNummer |-> op,
                              Personenart |-> typ])
    /\ \E leistung \in {Absent, IntV(200)} :
          m_einheit = MkDict([EinheitMastrNummer |-> Str(<<"SEE1">>), Leistung |-> leistung])
    /\ m_client \in Clients
    /\ m_pc = "criterion1"
    /\ m_natural = FALSE
    /\ m_fetches = 0
    /\ m_returns = <<>>
    /\ RetryIdle
    /\ BatchIdle
    /\ IterIdle
    /\ ToolIdle
    /\ ConvIdle
    /\ EnvIdle
    /\ ListIdle

\* return b
MatchReturn(b) ==
    /\ m_pc' = "returned"
    /\ m_returns' = Append(m_returns, b)

Criterion1 ==
    /\ m_pc = "criterion1"
    /\ IF Criterion1Passes(m_details)
       THEN m_pc' = "criterion2" /\ UNCHANGED m_returns
       ELSE MatchReturn(FALSE)
    /\ UNCHANGED <<m_details, m_einheit, m_client, m_natural, m_fetches,
                   retryVars, batchVars, iterVars, toolVars, convVars, envVars, listVars>>

Criterion2 ==
    /\ m_pc = "criterion2"
    /\ IF Criterion2Passes(m_details)
       THEN m_pc' = "criterion3" /\ UNCHANGED m_returns
       ELSE MatchReturn(FALSE)
    /\ UNCHANGED <<m_details, m_einheit, m_client, m_natural, m_fetches,
                   retryVars, batchVars, iterVars, toolVars, convVars, envVars, listVars>>

Criterion3 ==
    /\ m_pc = "criterion3"
    /\ IF Criterion3Passes(m_details, m_einheit)
       THEN m_pc' = "criterion4" /\ UNCHANGED m_returns
       ELSE MatchReturn(FALSE)
    /\ UNCHANGED <<m_details, m_einheit, m_client, m_natural, m_fetches,
                   retryVars, batchVars, iterVars, toolVars, convVars, envVars, listVars>>

\* criterion 4 up to the nested fetch: the direct type fields
Criterion4 ==
    /\ m_pc = "criterion4"
    /\ m_natural' = DirectMarker(m_details, m_einheit)
    /\ IF NeedsFetch(m_natural', m_details, m_einheit, m_client)
       THEN m_pc' = "fetch" /\ UNCHANGED m_returns
       ELSE MatchReturn(~m_natural')
    /\ UNCHANGED <<m_details, m_einheit, m_client, m_fetches,
                   retryVars, batchVars, iterVars, toolVars, convVars, envVars, listVars>>

\* client.get_marktakteur_details(anlagenbetreiber_mastr) inside the try block
NestedFetch ==
    /\ m_pc = "fetch"
    /\ m_fetches' = m_fetches + 1
    /\ m_natural' = (m_natural \/ FetchOutcome(m_client))
    /\ MatchReturn(~m_natural')
    /\ UNCHANGED <<m_details, m_einheit, m_client, retryVars, batchVars, iterVars, toolVars,
                   convVars, envVars, listVars>>

\* the caller calls matches_criteria once more with the same arguments
CallAgain ==
    /\ m_pc = "returned"
    /\ Len(m_returns) < MaxCalls
    /\ m_pc' = "criterion1"
    /\ m_natural' = FALSE
    /\ m_fetches' = 0
    /\ UNCHANGED <<m_details, m_einheit, m_client, m_returns,
                   retryVars, batchVars, iterVars, toolVars, convVars, envVars, listVars>>

NextMatch == Criterion1 \/ Criterion2 \/ Criterion3 \/ Criterion4 \/ NestedFetch \/ CallAgain

SpecMatch == InitMatch /\ [][NextMatch]_vars

----------------------------------------------------------------------------
(* One run of a tool that pages a listing, from the point where the client *)
(* was built: fetch_filtered_storage ("filtered_storage"), and cmd_actors  *)
(* ("actors") and cmd_storage_units ("storage_units") of master_fetch.     *)
(* The tool consumes one of the generators above.  Position of its loop:   *)
(*   "loop"    at the head of the for loop, about to ask for a record      *)
(*   "wait"    the generator runs                                          *)
(*   "detail"  about to call get_einheit_stromspeicher_details             *)
(*   "done"    the loop was left                                           *)

\* what GetEinheitStromSpeicher returns for a unit: a lithium battery of the
\* given power, with no operator number (matches_criteria makes no nested
\* fetch for it)
DetailsOf(power) ==
    ObjV([TechnologieDerStromspeicherung |-> Str(<<"Batterie">>),
          Batterietechnologie |-> Str(<<"Lithium", "-", "Ionen">>),
          Bruttoleistung |-> IntV(power),
          Bemerkung |-> NoneV])

DetailResponses == {Resp(DetailsOf(200)), Resp(DetailsOf(100)), FaultR(<<"Server">>)}

\* a filter that looks at the number only
NeedsDetail_AnyType(e) ==
    Truthy(get_nested_value(e, <<"EinheitMastrNummer">>))

\* the unit is a storage unit and has a number
NeedsDetail(e) ==
    /\ get_nested_value(e, <<"Einheittyp">>) = Stromspeichereinheit
    /\ Truthy(get_nested_value(e, <<"EinheitMastrNummer">>))

\* what matches_criteria returns when no nested fetch is due
MatchesDirect(details, einheit) ==
    /\ Criterion1Passes(details)
    /\ Criterion2Passes(details)
    /\ Criterion3Passes(details, einheit)
    /\ ~DirectMarker(details, einheit)

\* the entry fetch_filtered_storage appends to results
ResultEntry(einheit, details) ==
    DictV([EinheitMastrNummer |-> get_nested_value(einheit, <<"EinheitMastrNummer">>),
           Einheit |-> einheit,
           Details |-> details])

InitList ==
    /\ tool \in {"filtered_storage", "actors", "storage_units"}
    /\ main_pc = "listing"
    /\ base_rows = <<>>
    /\ interrupted = FALSE
    /\ exit_status = StillRunning
    /\ out_table = NotWritten
    /\ out_merged = NotWritten
    /\ it_kind = (IF tool = "actors" THEN "actors" ELSE "units")
    /\ it_limit \in 1..MaxPageSize
    /\ it_n \in 0..MaxUnits
    /\ it_start = 0
    /\ it_pc = "created"
    /\ it_items = <<>>
    /\ it_idx = 0
    /\ it_calls = <<>>
    /\ it_pages = <<>>
    /\ it_out = <<>>
    /\ it_limits = <<>>
    /\ it_requests = 0
    /\ ls_pc = "loop"
    /\ \E to_file \in BOOLEAN : ls_out = [to_file |-> to_file, opened |-> FALSE, rows |-> <<>>]
    /\ ls_details = <<>>
    /\ ls_results = <<>>
    /\ RetryIdle
    /\ BatchIdle
    /\ MatchIdle
    /\ ConvIdle
    /\ EnvIdle

\* the for loop asks the generator for the next record; write_jsonl of
\* master_fetch has opened the file before its loop starts
ToolNext ==
    /\ main_pc = "listing"
    /\ ls_pc = "loop"
    /\ it_pc \in {"created", "yielded"}
    /\ it_pc' = IF it_pc = "created" THEN "call" ELSE "items"
    /\ it_requests' = it_requests + 1
    /\ ls_pc' = "wait"
    /\ ls_out' = IF tool # "filtered_storage" /\ ls_out.to_file
                 THEN [ls_out EXCEPT !.opened = TRUE] ELSE ls_out
    /\ UNCHANGED <<it_kind, it_limit, it_n, it_start, it_items, it_idx, it_calls, it_pages,
                   it_out, it_limits, ls_details, ls_results,
                   retryVars, batchVars, toolVars, matchVars, convVars, envVars>>

\* the loop body up to the detail call: cmd_actors writes the record, the
\* other two go on to the detail call for a storage unit with a number
ToolItem ==
    /\ main_pc = "listing"
    /\ ls_pc = "wait"
    /\ it_pc = "yielded"
    /\ LET e == it_out[Len(it_out)]
       IN IF tool = "actors"
          THEN /\ ls_out' = [ls_out EXCEPT !.rows = Append(@, e)]
               /\ ls_pc' = "loop"
          ELSE /\ ls_pc' = IF NeedsDetail(e) THEN "detail" ELSE "loop"
               /\ UNCHANGED ls_out
    /\ UNCHANGED <<ls_details, ls_results,
                   retryVars, batchVars, iterVars, toolVars, matchVars, convVars, envVars>>

\* client.get_einheit_stromspeicher_details(einheit_nummer) and what follows
\* it.  fetch_filtered_storage: try ... except Exception: continue.
\* cmd_storage_units: the RuntimeError of a fault leaves the generator
\* filtered_details, the loop that writes, and main.
DetailCall ==
    /\ main_pc = "listing"
    /\ ls_pc = "detail"
    /\ \E r \in DetailResponses :
          LET e == it_out[Len(it_out)]
              details == zeep_to_dict(r.value)
          IN /\ ls_details' = Append(ls_details, [unit |-> e, resp |-> r])
             /\ IF tool = "filtered_storage"
                THEN /\ ls_results' = IF r.kind = "resp" /\ MatchesDirect(details, e)
                                      THEN Append(ls_results, ResultEntry(e, details))
                                      ELSE ls_results
                     /\ ls_pc' = "loop"
                     /\ UNCHANGED <<ls_out, main_pc, exit_status>>
                ELSE IF r.kind = "resp"
                     THEN /\ ls_out' = [ls_out EXCEPT !.rows =
                                           Append(@, DictV([Einheit |-> e, Details |-> details]))]
                          /\ ls_pc' = "loop"
                          /\ UNCHANGED <<ls_results, main_pc, exit_status>>
                     ELSE /\ ls_pc' = "done"
                          /\ main_pc' = "exited"
                          /\ exit_status' = Exit(1)
                          /\ UNCHANGED <<ls_out, ls_results>>
    /\ UNCHANGED <<tool, base_rows, interrupted, out_table, out_merged,
                   retryVars, batchVars, iterVars, matchVars, convVars, envVars>>

\* the generator is exhausted: fetch_filtered_storage returns results and
\* main writes them; the commands of master_fetch return 0
ToolEnd ==
    /\ main_pc = "listing"
    /\ ls_pc = "wait"
    /\ it_pc = "done"
    /\ ls_pc' = "done"
    /\ ls_out' = IF tool = "filtered_storage"
                 THEN [ls_out EXCEPT !.opened = ls_out.to_file, !.rows = ls_results]
                 ELSE ls_out
    /\ main_pc' = "exited"
    /\ exit_status' = Exit(0)
    /\ UNCHANGED <<tool, base_rows, interrupted, out_table, out_merged, ls_details, ls_results,
                   retryVars, batchVars, iterVars, matchVars, convVars, envVars>>

\* the RuntimeError of the generator reaches the tool: fetch_filtered_storage
\* logs and re-raises it and main returns 1; in master_fetch it leaves main
ToolFault ==
    /\ main_pc = "listing"
    /\ ls_pc = "wait"
    /\ it_pc = "raised"
    /\ ls_pc' = "done"
    /\ main_pc' = "exited"
    /\ exit_status' = Exit(1)
    /\ UNCHANGED <<tool, base_rows, interrupted, out_table, out_merged,
                   ls_out, ls_details, ls_results,
                   retryVars, batchVars, iterVars, matchVars, convVars, envVars>>

NextList ==
    \/ ToolNext \/ ToolItem \/ DetailCall \/ ToolEnd \/ ToolFault
    \/ ListCall \/ ListFault \/ IterYield \/ IterPageEnd

SpecList == InitList /\ [][NextList]_vars

----------------------------------------------------------------------------
(* Properties of matches_criteria *)

Criteria123Pass ==
    /\ Criterion1Passes(m_details)
    /\ Criterion2Passes(m_details)
    /\ Criterion3Passes(m_details, m_einheit)

\* the direct fields are inconclusive and the operator can be looked up
FetchCase ==
    /\ Criteria123Pass
    /\ ~DirectMarker(m_details, m_einheit)
    /\ Truthy(anlagenbetreiber_mastr(m_details, m_einheit))
    /\ m_client.kind # "none"

\* C16: when criteria 1-3 pass, no direct field marks a natural person and
\* an operator identifier is present, a nested operator fetch that raises
\* does not fail the match: the call returns True and never raises.
C16_NestedFailureSwallowed ==
    /\ m_pc \in {"idle", "criterion1", "criterion2", "criterion3", "criterion4", "fetch", "returned"}
    /\ (m_pc = "returned" /\ FetchCase /\ m_client.kind = "exc") =>
          (m_fetches = 1 /\ Last(m_returns) = TRUE)

C16_Witness ==
    /\ m_pc = "returned"
    /\ FetchCase
    /\ m_client = ExcR(<<"RuntimeError">>)
    /\ m_fetches = 1
    /\ Last(m_returns) = TRUE

\* C17: the criteria are evaluated in the order 1, 2, 3, 4 and the first
\* failure ends the call with False; the nested fetch is made at most once
\* per call, and only after criteria 1-3 passed with no direct marker of a
\* natural person and with an operator identifier; otherwise no call is made.
C17_OrderedShortCircuit ==
    /\ m_fetches <= 1
    /\ m_fetches = 1 =>
          /\ Criteria123Pass
          /\ ~DirectMarker(m_details, m_einheit)
          /\ Truthy(anlagenbetreiber_mastr(m_details, m_einheit))
    /\ m_pc = "criterion2" => Criterion1Passes(m_details)
    /\ m_pc = "criterion3" => (Criterion1Passes(m_details) /\ Criterion2Passes(m_details))
    /\ m_pc \in {"criterion4", "fetch"} => Criteria123Pass
    /\ (m_pc = "returned" /\ ~FetchCase) => m_fetches = 0
    /\ (m_pc = "returned" /\ ~Criteria123Pass) => Last(m_returns) = FALSE

C17_Witness ==
    /\ m_pc = "returned"
    /\ m_fetches = 1
    /\ FetchCase
    /\ Len(m_returns) = MaxCalls

\* the unit of the worked example: battery, lithium-ion, the given power, an
\* operator identifier, no direct type field, and a client that returns an
\* operator of the given type
ExampleUnit(power, operator_type) ==
    /\ get_nested_value(m_details, <<"TechnologieDerStromspeicherung">>) = Str(<<"Batterie">>)
    /\ get_nested_value(m_details, <<"Batterietechnologie">>)
          = Str(<<"Lithium", "-", "Ionen", "-", "Akku">>)
    /\ get_nested_value(m_details, <<"Bruttoleistung">>) = IntV(power)
    /\ get_nested_value(m_details, <<"AnlagenbetreiberMastrNummer">>) = Str(<<"ABR1">>)
    /\ get_nested_value(m_details, <<"Personenart">>) = NoneV
    /\ m_client = Resp(DictV([Personenart |-> Str(operator_type)]))

\* C18: repeated calls on the same records with the same stubbed client
\* return the same boolean and leave the records unchanged; the example unit
\* gives True for power 200 and operator type Unternehmen, False for power
\* 100, and False for power 200 with operator type Natürliche Person.
C18_DeterministicExamples ==
    /\ [](/\ \A i, j \in 1..Len(m_returns) : m_returns[i] = m_returns[j]
          /\ (m_pc = "returned" /\ ExampleUnit(200, <<"Unternehmen">>)) => Last(m_returns) = TRUE
          /\ (m_pc = "returned" /\ ExampleUnit(100, <<"Unternehmen">>)) => Last(m_returns) = FALSE
          /\ (m_pc = "returned" /\ ExampleUnit(200, NaturalText)) => Last(m_returns) = FALSE)
    /\ [][m_details' = m_details /\ m_einheit' = m_einheit /\ m_client' = m_client]_vars

C18_Witness ==
    /\ m_pc = "returned"
    /\ ExampleUnit(200, NaturalText)
    /\ m_returns = [i \in 1..MaxCalls |-> FALSE]

\* the first value of vals that is not None (None when there is none)
RECURSIVE FirstNonNull(_)
FirstNonNull(vals) ==
    IF vals = <<>> THEN NoneV
    ELSE IF vals[1] # NoneV THEN vals[1] ELSE FirstNonNull(Tail(vals))

TechnologieAliases ==
    << get_nested_value(m_details, <<"TechnologieDerStromspeicherung">>),
       get_nested_value(m_details, <<"EinheitStromSpeicher", "TechnologieDerStromspeicherung">>),
       get_nested_value(m_details, <<"Technologie">>),
       get_nested_value(m_details, <<"Speichertechnologie">>) >>

\* C19 (as claimed): criterion 1 is decided by the first alias, in alias
\* order, whose value is not null: the criterion is passed only if that
\* value contains 'Batterie'.
C19_FirstNonNullTechnology ==
    m_pc \in {"criterion2", "criterion3", "criterion4", "fetch"} =>
        /\ FirstNonNull(TechnologieAliases) # NoneV
        /\ IsSubstr(<<"Batterie">>, PyText(FirstNonNull(TechnologieAliases), FALSE))

PowerAliases ==
    << get_nested_value(m_details, <<"Bruttoleistung">>),
       get_nested_value(m_details, <<"EinheitStromSpeicher", "Bruttoleistung">>),
       get_nested_value(m_details, <<"BruttoleistungEinheit">>),
       get_nested_value(m_details, <<"BruttoLeistung">>),
       get_nested_value(m_einheit, <<"Bruttoleistung">>),
       get_nested_value(m_einheit, <<"Leistung">>) >>

\* v is a number, or the text of a number, strictly greater than 150
ExceedsThreshold(v) ==
    /\ v.t \in {"int", "str"}
    /\ ToFloat(v).k = "num"
    /\ ToFloat(v).mant > PowerThreshold * Pow10(ToFloat(v).frac)

\* C20 (as claimed): criterion 3 is decided by the first power alias, in
\* alias order, whose value is not null: it is passed only if that value is
\* a number strictly greater than 150, and the call never raises.
C20_FirstNonNullPower ==
    /\ m_pc # "raised"
    /\ m_pc \in {"criterion4", "fetch"} => ExceedsThreshold(FirstNonNull(PowerAliases))

----------------------------------------------------------------------------
(* Further properties of fetch_marktakteur_with_retry *)

RECURSIVE Pow2(_)
Pow2(n) == IF n = 0 THEN 1 ELSE 2 * Pow2(n - 1)

\* the i-th capped exponential delay, i = 0, 1, ...
CappedDelay(i) == Min(InitialDelay * Pow2(i), MaxDelay)

\* C25: the i-th sleep of a fetch lasts min(200 ms * 2^(i-1), 10 s), so the
\* delays start at 200 ms, double and never exceed 10 s; a fetch that is
\* rate-limited on all its M attempts sleeps M times, and the time slept is
\* never more than the sum of the first M capped exponential delays.
C25_BackoffDelays ==
    /\ \A i \in 1..Len(sleeps) : sleeps[i] = CappedDelay(i - 1) /\ sleeps[i] <= MaxDelay
    /\ Len(sleeps) <= fetch.max_retries
    /\ SumSeq(sleeps) <= SumSeq([i \in 1..fetch.max_retries |-> CappedDelay(i - 1)])
    /\ (fetch.pc = "returned" /\ AllRateLimited /\ Len(resps) = fetch.max_retries) =>
          SumSeq(sleeps) = SumSeq([i \in 1..fetch.max_retries |-> CappedDelay(i - 1)])

C25_Witness ==
    /\ fetch.pc = "returned"
    /\ fetch.max_retries = MaxRetriesArg
    /\ AllRateLimited
    /\ Len(sleeps) = MaxRetriesArg
    /\ sleeps[1] = InitialDelay
    /\ Last(sleeps) = MaxDelay
    /\ InitialDelay * Pow2(MaxRetriesArg - 1) > MaxDelay

----------------------------------------------------------------------------
(* Properties of merge_csvs *)

\* the identifier merge_csvs takes from base row n
MergeId(n) ==
    IF tool = "anlagenbetreiber"
    THEN Strip(RowIdAB(base_rows[n]))
    ELSE RowIdMA(base_rows[n])

\* C21: whatever the base rows and the result map are, the merged file has
\* one row per base row, in input order, each carrying the cells of its base
\* row, and every row has the same columns, those of the header.
C21_EveryBaseRowOnce ==
    main_pc = "exited" =>
        /\ ~out_merged.raised
        /\ Len(out_merged.rows) = Len(base_rows)
        /\ \A n \in 1..Len(base_rows) :
              /\ DOMAIN out_merged.rows[n] = out_merged.fieldnames
              /\ \A c \in DOMAIN base_rows[n] :
                    out_merged.rows[n][c] = CsvCell(AsDict(base_rows[n])[c])

\* the columns outside the base row in which merged row n has a value
MarkedCols(n) ==
    {c \in out_merged.fieldnames \ DOMAIN base_rows[n] : out_merged.rows[n][c] # <<>>}

\* C22: in a merged file, a base row without identifier and a base row whose
\* identifier the result map lacks each have exactly one value outside the
\* base columns, the status marker, so that every fetched column is empty,
\* and the marker of the one kind differs from the marker of the other.
C22_StatusMarkers ==
    (main_pc = "exited" /\ out_merged.opened /\ ~out_merged.raised) =>
        LET Unmatched == {n \in 1..Len(base_rows) :
                              MergeId(n) = <<>> \/ ResultKey(results, MergeId(n)) = 0}
            Marker(n) == {out_merged.rows[n][c] : c \in MarkedCols(n)}
        IN /\ \A n \in Unmatched : Cardinality(MarkedCols(n)) = 1
           /\ \A n, k \in Unmatched :
                 (MergeId(n) = <<>> /\ MergeId(k) # <<>>) => Marker(n) # Marker(k)

----------------------------------------------------------------------------
(* Properties of zeep_to_dict and flatten_dict *)

\* None, {} or []
IsEmptyArtefact(v) == v = NoneV \/ v = EmptyDict \/ v = EmptyList

RECURSIVE Pruned(_)
\* no None, no empty mapping and no empty sequence below v, at any depth
Pruned(v) ==
    CASE v.t = "dict" -> \A k \in DOMAIN v.fields :
                            ~IsEmptyArtefact(v.fields[k]) /\ Pruned(v.fields[k])
      [] v.t = "list" -> \A i \in 1..Len(v.items) :
                            ~IsEmptyArtefact(v.items[i]) /\ Pruned(v.items[i])
      [] OTHER -> TRUE

\* C23: the record zeep_to_dict returns holds no None, no empty mapping and
\* no empty sequence at any depth, inside sequences too.
C23_PrunedAtEveryDepth ==
    cv_pc \in {"normalized", "flattened"} => Pruned(cv_rec)

RECURSIVE Unflatten(_)
\* the nested mapping that splitting the keys of cells on "_" gives
Unflatten(cells) ==
    DictV([h \in {k[1] : k \in DOMAIN cells} |->
              IF <<h>> \in DOMAIN cells
              THEN cells[<<h>>]
              ELSE Unflatten([r \in {SubSeq(k, 3, Len(k)) : k \in {x \in DOMAIN cells : x[1] = h}}
                                 |-> cells[<<h, "_">> \o r]])])

\* C24: flatten_dict returns a mapping of scalar values equal to its input
\* when every value of the input is a scalar; every cell of a flattened
\* mapping is a scalar, so that flattening it again changes nothing; and
\* re-nesting the flattened keys by splitting on "_" gives the input back
\* (no field name of the inputs holds a "_"); all this for the records that
\* hold no None and no empty container.
C24_FlattenInvertible ==
    (cv_pc = "flattened" /\ Pruned(cv_rec)) =>
        /\ (\A k \in DOMAIN cv_rec.fields : cv_rec.fields[k].t \in {"none", "str", "int"}) =>
              cv_flat.cells = [c \in {<<k>> : k \in DOMAIN cv_rec.fields} |-> cv_rec.fields[c[1]]]
        /\ \A c \in DOMAIN cv_flat.cells : cv_flat.cells[c].t \in {"none", "str", "int"}
        /\ Unflatten(cv_flat.cells) = cv_rec

----------------------------------------------------------------------------
(* Properties of the start of a tool *)

\* the variable is absent or empty
Unset(v) == v = NoneV \/ v = Str(<<>>)

\* C26: in every tool, when MASTR_API_KEY or MASTR_MARKTAKTEUR is absent or
\* empty, the run never gets past the test of the credentials: once the
\* test is made the process has ended with a non-zero exit code, no remote
\* call was made, no fetch was retried and no output was opened.
C26_MissingCredentialsFatal ==
    ((Unset(env_api_key) \/ Unset(env_mastr_nr)) /\ main_pc # "launch") =>
        /\ main_pc = "exited"
        /\ exit_status.kind = "exit" /\ exit_status.code # 0
        /\ calls = 0 /\ sleeps = <<>> /\ it_calls = <<>> /\ ls_details = <<>>
        /\ ~out_table.opened /\ ~out_merged.opened /\ ~ls_out.opened /\ ls_out.rows = <<>>

C26_Witness ==
    /\ tool = "storage_units"
    /\ env_api_key = Str(<<"key">>)
    /\ env_mastr_nr = NoneV
    /\ main_pc = "exited"
    /\ exit_status = Exit(1)

----------------------------------------------------------------------------
(* Properties of the tools that page a listing *)

\* C27: when a listing call of a run has raised, the process has ended with
\* exit code 1 and no output record was written, whatever the earlier pages
\* gave.
C27_ListingFaultFatal ==
    (main_pc = "exited" /\ it_pc = "raised") =>
        /\ exit_status = Exit(1)
        /\ ls_out.rows = <<>>

\* the listed units the loop body of the tool has dealt with
Handled ==
    IF ls_pc = "detail" \/ (ls_pc = "wait" /\ it_pc = "yielded")
    THEN SubSeq(it_out, 1, Len(it_out) - 1)
    ELSE it_out

\* C28: in fetch_filtered_storage the detail calls made are, in listing
\* order and once each, those for the listed storage units with a number; a
\* failed detail call does not end the run; and results holds, in listing
\* order, exactly the units whose detail call succeeded and whose records
\* meet the criteria, which is what the run puts out when the listing ends.
C28_DetailCallPerStorageUnit ==
    tool = "filtered_storage" =>
        LET storage == SelectSeq(Handled, LAMBDA e :
                           /\ "Einheittyp" \in DOMAIN e.fields
                           /\ e.fields["Einheittyp"] = Str(<<"Stromspeichereinheit">>)
                           /\ "EinheitMastrNummer" \in DOMAIN e.fields
                           /\ e.fields["EinheitMastrNummer"].v # <<>>)
            kept == SelectSeq(ls_details, LAMBDA c :
                           /\ c.resp.kind = "resp"
                           /\ MatchesDirect(zeep_to_dict(c.resp.value), c.unit))
        IN /\ [i \in 1..Len(ls_details) |-> ls_details[i].unit] = storage
           /\ ls_results = [i \in 1..Len(kept) |->
                               ResultEntry(kept[i].unit, zeep_to_dict(kept[i].resp.value))]
           /\ (main_pc = "exited" /\ it_pc # "raised") =>
                 (exit_status = Exit(0) /\ Len(it_out) = it_n /\ ls_out.rows = ls_results)

C28_Witness ==
    /\ tool = "filtered_storage"
    /\ main_pc = "exited"
    /\ exit_status = Exit(0)
    /\ it_n = MaxUnits
    /\ Len(ls_details) = 2
    /\ ls_details[1].resp.kind = "fault"
    /\ ls_details[2].resp = Resp(DetailsOf(200))
    /\ Len(ls_results) = 1
    /\ ls_out.rows = ls_results

====
